---- MODULE Spec2Model ----
(***************************************************************************)
(* Reverse-tunnel HTTP proxy: the JS broker (src/server.js) together with  *)
(* the frame codec (MessageBuffer, src/Logger.js).                         *)
(*                                                                         *)
(* Sockets and HTTP exchanges are numbered in the order the broker accepts *)
(* them.  A byte is a number in 0..255.  JSON text is abstracted to one    *)
(* byte per scalar field (three ASCII digits for the status code) and a    *)
(* base64 string to one byte per encoded body byte; none of the field      *)
(* bytes is 0, as no JSON text contains a NUL.                             *)
(***************************************************************************)
EXTENDS Integers, Sequences, FiniteSets, TLC

(***************************************************************************)
(* Bounds of the model.                                                    *)
(***************************************************************************)
MaxReq == 2
MaxSock == 2
NumIds == 2
MaxSend == 2
MaxChunks == 1
MaxSplits == 2

Requests == 1..MaxReq
Sockets == 1..MaxSock
\* the values Math.random().toString(36).substring(7) can take
IdSpace == 1..NumIds

Null == 0

Min(a, b) == IF a < b THEN a ELSE b

Max(S) == CHOOSE x \in S : \A y \in S : y <= x

\* Ids are opaque strings that are only ever compared for equality, so the
\* values Math.random has produced are numbered in the order of first use:
\* a draw either repeats a value drawn before or is the next unused one.
Draws(used) == {i \in IdSpace : i <= Max(used \cup {0}) + 1}

(***************************************************************************)
(* Sequence helpers.                                                       *)
(***************************************************************************)
Drop(s, n) == SubSeq(s, n + 1, Len(s))

Take(s, n) == SubSeq(s, 1, n)

Range(s) == {s[i] : i \in 1..Len(s)}

RECURSIVE Remove(_, _)
Remove(s, x) ==
    IF s = <<>> THEN <<>>
    ELSE IF Head(s) = x THEN Remove(Tail(s), x)
    ELSE <<Head(s)>> \o Remove(Tail(s), x)

(***************************************************************************)
(* MessageBuffer (frame codec).                                            *)
(***************************************************************************)
\* Buffer.readUInt32BE(0)
ReadUInt32BE(b) == b[1] * 16777216 + b[2] * 65536 + b[3] * 256 + b[4]

\* Buffer.writeUInt32BE(n, 0) into a 4-byte buffer
WriteUInt32BE(n) ==
    << (n \div 16777216) % 256, (n \div 65536) % 256, (n \div 256) % 256, n % 256 >>

\* produce with the length written by writeUInt32LE
ProduceLE(data) ==
    << Len(data) % 256, (Len(data) \div 256) % 256, (Len(data) \div 65536) % 256,
       (Len(data) \div 16777216) % 256 >> \o data

\* MessageBuffer.produce
Produce(data) == WriteUInt32BE(Len(data)) \o data

\* consume with an `if` in place of the `while`: one frame per call at most
ConsumeOnce(buf, src, frames) ==
    IF Len(buf) >= 4 /\ Len(buf) >= ReadUInt32BE(buf) + 4
    THEN [buffer |-> Drop(buf, ReadUInt32BE(buf) + 4),
          src |-> Drop(src, ReadUInt32BE(buf) + 4),
          frames |-> Append(frames,
                            [payload |-> SubSeq(buf, 5, ReadUInt32BE(buf) + 4),
                             from |-> Range(Take(src, ReadUInt32BE(buf) + 4))])]
    ELSE [buffer |-> buf, src |-> src, frames |-> frames]

\* the loop with the callback called for non-empty frames only
RECURSIVE ConsumeLoopSkipsEmpty(_, _, _)
ConsumeLoopSkipsEmpty(buf, src, frames) ==
    IF Len(buf) >= 4
    THEN LET size == ReadUInt32BE(buf)
         IN  IF Len(buf) >= size + 4
             THEN ConsumeLoopSkipsEmpty(
                      Drop(buf, size + 4), Drop(src, size + 4),
                      IF size = 0 THEN frames
                      ELSE Append(frames,
                                  [payload |-> SubSeq(buf, 5, size + 4),
                                   from |-> Range(Take(src, size + 4))]))
             ELSE [buffer |-> buf, src |-> src, frames |-> frames]
    ELSE [buffer |-> buf, src |-> src, frames |-> frames]

\* the loop taking a frame only when bytes follow it: > in place of >=
RECURSIVE ConsumeLoopStrict(_, _, _)
ConsumeLoopStrict(buf, src, frames) ==
    IF Len(buf) >= 4
    THEN LET size == ReadUInt32BE(buf)
         IN  IF Len(buf) > size + 4
             THEN ConsumeLoopStrict(Drop(buf, size + 4), Drop(src, size + 4),
                                    Append(frames,
                                           [payload |-> SubSeq(buf, 5, size + 4),
                                            from |-> Range(Take(src, size + 4))]))
             ELSE [buffer |-> buf, src |-> src, frames |-> frames]
    ELSE [buffer |-> buf, src |-> src, frames |-> frames]

\* The while loop of MessageBuffer.consume on a buffer and, in step with it,
\* the socket each byte came from; frames are collected in delivery order.
RECURSIVE ConsumeLoop(_, _, _)
ConsumeLoop(buf, src, frames) ==
    IF Len(buf) >= 4
    THEN LET size == ReadUInt32BE(buf)
         IN  IF Len(buf) >= size + 4
             THEN ConsumeLoop(Drop(buf, size + 4), Drop(src, size + 4),
                              Append(frames,
                                     [payload |-> SubSeq(buf, 5, size + 4),
                                      from |-> Range(Take(src, size + 4))]))
             ELSE [buffer |-> buf, src |-> src, frames |-> frames]
    ELSE [buffer |-> buf, src |-> src, frames |-> frames]

\* MessageBuffer.consume: append, then loop
Consume(buf, src, data, from) ==
    ConsumeLoop(buf \o data, src \o [i \in 1..Len(data) |-> from], <<>>)

(***************************************************************************)
(* Envelope text.                                                          *)
(***************************************************************************)
TypeRequest == 1
TypeResponse == 2
MethodGet == 1
BufferTag == 3
B64Base == 64
AsciiZero == 48

\* header sets: {} and one non-empty set of headers
NoHeaders == 1
SomeHeaders == 2
HeaderVals == {NoHeaders, SomeHeaders}

\* a JSON number as ASCII decimal digits
Digits(n) ==
    << AsciiZero + ((n \div 100) % 10), AsciiZero + ((n \div 10) % 10), AsciiZero + (n % 10) >>

IsDigit(c) == c >= AsciiZero /\ c <= AsciiZero + 9

ParseDigits(d) == (d[1] - AsciiZero) * 100 + (d[2] - AsciiZero) * 10 + (d[3] - AsciiZero)

\* Buffer.toString('base64') and Buffer.from(s, 'base64')
ToBase64(bytes) == [i \in 1..Len(bytes) |-> B64Base + bytes[i]]

FromBase64(str) == [i \in 1..Len(str) |-> str[i] - B64Base]

\* JSON.stringify of a response envelope
StringifyResponse(e) ==
    << TypeResponse, e.clientId, e.requestId >> \o Digits(e.statusCode)
        \o << e.headers >> \o e.body

\* JSON.stringify(requestData): the body is a Buffer, which serialises as
\* {"type":"Buffer","data":[...]}
StringifyRequest(rd) ==
    << TypeRequest, rd.clientId, rd.requestId, rd.method, rd.url, rd.headers, BufferTag >>
        \o rd.body

\* JSON.parse on the broker side: the text is well formed or it throws
ParsesAsResponse(p) ==
    /\ Len(p) >= 7
    /\ p[1] = TypeResponse
    /\ p[2] # 0 /\ p[3] # 0
    /\ IsDigit(p[4]) /\ IsDigit(p[5]) /\ IsDigit(p[6])
    /\ p[7] \in HeaderVals
    /\ \A i \in 8..Len(p) : p[i] >= B64Base

\* the type of an envelope that is neither a request nor a response
TypePing == 4

\* the text is JSON with the fields the broker's callback reads: clientId,
\* requestId, a statusCode writeHead accepts, headers and a base64 body; the
\* callback never reads the type
HasResponseFields(p) ==
    /\ Len(p) >= 7
    /\ p[1] \in {TypeResponse, TypePing}
    /\ p[2] # 0 /\ p[3] # 0
    /\ IsDigit(p[4]) /\ IsDigit(p[5]) /\ IsDigit(p[6])
    /\ p[7] \in HeaderVals
    /\ \A i \in 8..Len(p) : p[i] >= B64Base

ParseResponse(p) ==
    [clientId |-> p[2], requestId |-> p[3], statusCode |-> ParseDigits(SubSeq(p, 4, 6)),
     headers |-> p[7], body |-> Drop(p, 7)]

\* what the agent reads in a request frame
ParsesAsRequest(p) == Len(p) >= 7 /\ p[1] = TypeRequest

ParseRequest(p) == [clientId |-> p[2], requestId |-> p[3], url |-> p[5]]

\* the slot of a key the object does not have: reading it gives undefined
Absent == 255

\* the JSON text {}
EmptyObject == << Absent, Absent, Absent >>

\* JSON.parse does not throw
IsJson(p) == HasResponseFields(p) \/ ParsesAsRequest(p) \/ p = EmptyObject

\* message.type, response.clientId and response.requestId of a parsed object
JsonType(p) == p[1]

JsonIds(p) == [clientId |-> p[2], requestId |-> p[3]]

(***************************************************************************)
(* State.                                                                  *)
(***************************************************************************)
VARIABLES
    clients,          \* this.clients: the registered sockets, in insertion order
    buffer,           \* this.messageBuffer.buffer, shared by all sockets
    pendingRequests,  \* this.pendingRequests: requestId -> { req, res }
    sockState,        \* per socket: "none", "open", "ended", "error"
    sockId,           \* socket.id
    sockOut,          \* bytes the broker has written to the socket
    wire,             \* bytes the agent has sent that the broker has not read yet
    phase,            \* per HTTP exchange: "idle", "rejected", "reading", "ended", "aborted"
    reqId,            \* requestId of the closure of handleRequest
    reqClient,        \* client of the closure of handleRequest
    reqBody,          \* requestData.body: the chunks received so far
    resWrites,        \* per HTTP exchange: the writeHead/end calls on res
    logs,             \* the logger.warn / logger.error calls of the step just taken
    delivered,        \* the frames the step just taken handed to onDataCallback
    bufSrc,           \* history: the socket each byte of buffer came from
    inflight,         \* history: per socket, the payloads sent and not yet decoded
    nsent,            \* history: the number of frames the agents have sent
    splits,           \* history: the number of reads that stopped short of the bytes sent
    expired,          \* history: per HTTP exchange, request_timeout has elapsed
    honest,           \* history: every agent only answered requests it was sent
    \* a MessageBuffer on its own, fed by one peer
    mbBuffer,         \* MessageBuffer.buffer
    mbSink,           \* the payloads handed to onDataCallback, in order
    mbFeed,           \* bytes the peer has written that consume has not been given yet
    mbSent,           \* history: the payloads the peer has framed with produce
    mbRaw,            \* history: the peer has written bytes that produce did not make
    mbCalls,          \* history: the number of consume calls, counted up to MaxCalls
    mbSplit,          \* history: a consume call ended inside a length prefix
    \* ProxyClient, the agent (src/unnamed/part_000)
    agSocks,          \* the sockets made by connect() and still referenced; the last is this.socket
    agTimers,         \* the reconnect timers armed by setTimeout and not yet fired
    agBuffer,         \* this.messageBuffer.buffer
    agCalls,          \* the upstream calls of handleRequest that have not completed
    agLogs,           \* the logger.error calls of the step just taken
    agDelivered,      \* the frames the step just taken handed to the agent's callback
    agWrote,          \* the this.socket.write calls of the step just taken
    agRecv,           \* history: the number of frames the broker has sent the agent
    agDials,          \* history: the number of connect() calls, counted up to MaxDials
    brokerUp,         \* environment: the broker accepts connections
    \* the response envelope an agent implementation builds for a request envelope
    envImpl,          \* which agent program runs
    envRequest,       \* the request envelope it was sent
    envResponse,      \* the envelope it answered with
    \* handleRequest of the agent resolving the URL of a request
    rwConfig,         \* config.client.proxy once the module is loaded
    rwUrl,            \* requestData.url
    rwTarget,         \* targetUrl after applyRewriteRules
    rwTested,         \* history: the number of regex.test calls of applyRewriteRules
    \* the body of one request on its way from the caller to the origin
    rtStage,          \* "idle", "forwarded" (req 'end' ran), "issued" (the agent's req.end() ran)
    rtChunks,         \* the chunks req 'data' gave the broker
    rtEnvelope,       \* JSON.stringify(requestData)
    rtUpstream,       \* the bytes the agent wrote to the upstream request
    \* the Go MessageBuffer (src/unnamed/part_002) next to the JS one
    gmBuffer,         \* mb.buffer
    gmSink,           \* the messages handed to onData, in order
    gmProduced,       \* the bytes Produce returned, one call after the other
    \* ProxyServer of the Go broker (src/unnamed/part_002) and its goroutines
    gbClients,        \* s.clients: the connections registered
    gbPending,        \* s.pendingRequests: the requestIDs stored
    gbClientsMutex,   \* s.clientsMutex: the goroutine holding it for writing, those holding it for reading
    gbRequestsMutex,  \* s.requestsMutex
    gbHandler,        \* per HTTP request: where its handleHTTPRequest goroutine is
    gbClient,         \* per HTTP request: the connection handleHTTPRequest picked
    gbRes,            \* per HTTP request: the calls made on its ResponseWriter
    gbDone,           \* per HTTP request: the done channel is closed
    gbTimer,          \* per HTTP request: the time.After channel has fired
    gbConn,           \* per connection: where its handleSocketConnection goroutine is
    gbMessage,        \* per connection: the requestId of the envelope handleMessage is working on
    gbAnswered,       \* history: the requests whose envelope an agent has sent
    gbFatal,          \* the runtime has ended the process
    \* ProxyClient of the Go agent (src/go-reverse-proxy/client.go)
    gaSocket,         \* the request envelopes the broker has written and conn.Read has not returned yet
    gaBuffer,         \* the messages in c.messageBuffer that Consume has not handed over yet
    gaHandling,       \* the request handleMessage is working on, its upstream call in flight
    gaStarted,        \* history: the requestIds whose upstream call was started
    gaWritten,        \* the response envelopes written to c.conn
    gaSent,           \* history: the number of request envelopes the broker has written
    hrSocket,         \* the JS agent's tunnel: "connected" or "closed"
    hrDecoded,        \* history: the url of each request envelope decoded, by requestId
    hrCalls,          \* the upstream calls in flight
    hrWritten,        \* history: the response envelopes written to the tunnel
    hrLogs            \* history: what the callback has logged

serverVars == << clients, buffer, pendingRequests, sockState, sockId, sockOut, wire,
                 phase, reqId, reqClient, reqBody, resWrites, logs, delivered, bufSrc,
                 inflight, nsent, splits, expired, honest >>

codecVars == << mbBuffer, mbSink, mbFeed, mbSent, mbRaw, mbCalls, mbSplit >>

agentVars == << agSocks, agTimers, agBuffer, agCalls, agLogs, agDelivered, agWrote,
                agRecv, agDials, brokerUp >>

envVars == << envImpl, envRequest, envResponse >>

rewriteVars == << rwConfig, rwUrl, rwTarget, rwTested >>

\* the state of the functions taken on their own
bodyVars == << rtStage, rtChunks, rtEnvelope, rtUpstream >>

goCodecVars == << gmBuffer, gmSink, gmProduced >>

goBrokerVars == << gbClients, gbPending, gbClientsMutex, gbRequestsMutex, gbHandler,
                   gbClient, gbRes, gbDone, gbTimer, gbConn, gbMessage, gbAnswered,
                   gbFatal >>

goAgentVars == << gaSocket, gaBuffer, gaHandling, gaStarted, gaWritten, gaSent >>

requestVars == << hrSocket, hrDecoded, hrCalls, hrWritten, hrLogs >>

pureVars == << rewriteVars, bodyVars, goCodecVars, goBrokerVars, goAgentVars, requestVars >>

restVars == << envVars, pureVars >>

\* what a step of the broker leaves alone
nonServerVars == << codecVars, agentVars, restVars >>

vars == << serverVars, codecVars, agentVars, restVars >>

httpVars == << phase, reqId, reqClient, reqBody >>

histVars == << bufSrc, inflight, nsent, splits, expired, honest >>

\* a step that is not a socket 'data' event hands nothing to the sink
NoSink == logs' = <<>> /\ delivered' = <<>>

(***************************************************************************)
(* HTTP responder.                                                         *)
(***************************************************************************)
Text(s) == [text |-> s]

Bytes(b) == [bytes |-> b]

\* res.writeHead(status[, headers]); [res.write(body);] res.end([text])
WriteRes(rw, h, status, headers, body) ==
    [rw EXCEPT ![h] = Append(@, [status |-> status, headers |-> headers, body |-> body])]

(***************************************************************************)
(* ProxyServer (src/server.js).                                            *)
(***************************************************************************)
\* the value pendingRequests.set stores: { req, res }, both of exchange h
PendingEntry(h) == [req |-> h, res |-> h]

\* request.clientId of a stored entry; undefined (Null) when there is no such field
EntryClientId(e) == IF "clientId" \in DOMAIN e THEN e.clientId ELSE Null

\* Map.prototype.set and Map.prototype.delete
MapSet(m, k, v) == [x \in DOMAIN m \cup {k} |-> IF x = k THEN v ELSE m[x]]

MapDelete(m, k) == [x \in DOMAIN m \ {k} |-> m[x]]

\* ProxyServer.findClient: the first registered socket with that id, or null
FindClient(cl, ids, clientId) ==
    LET hits == {i \in 1..Len(cl) : ids[cl[i]] = clientId}
    IN  IF hits = {} THEN Null
        ELSE cl[CHOOSE i \in hits : \A j \in hits : i <= j]

UnmatchedWarning(response) ==
    [level |-> "warn", message |-> "No matching request found for response",
     clientId |-> response.clientId, requestId |-> response.requestId]

\* the catch of both callbacks: logger.error('error', 'Error processing message')
ProcessingError == [level |-> "error", message |-> "Error processing message"]

\* the callback without pendingRequests.delete after res.end()
OnDataNoDelete(st, payload) ==
    IF ~IsJson(payload)
    THEN [st EXCEPT !.logs = Append(@, ProcessingError)]
    ELSE LET response == ParseResponse(payload)
             client == FindClient(st.clients, st.ids, JsonIds(payload).clientId)
             body == IF response.body # <<>> THEN Bytes(FromBase64(response.body)) ELSE Bytes(<<>>)
         IN  IF client = Null THEN st
             ELSE IF JsonIds(payload).requestId \in DOMAIN st.pending
             THEN IF ~HasResponseFields(payload)
                  THEN [st EXCEPT !.logs = Append(@, ProcessingError)]
                  ELSE
                  [st EXCEPT
                     !.res = WriteRes(@, st.pending[response.requestId].res,
                                      response.statusCode, response.headers, body)]
             ELSE [st EXCEPT !.logs = Append(@, UnmatchedWarning(JsonIds(payload)))]

\* the callback with a bare res.writeHead(response.statusCode)
OnDataNoHeaders(st, payload) ==
    IF ~IsJson(payload)
    THEN [st EXCEPT !.logs = Append(@, ProcessingError)]
    ELSE LET response == ParseResponse(payload)
             client == FindClient(st.clients, st.ids, JsonIds(payload).clientId)
             body == IF response.body # <<>> THEN Bytes(FromBase64(response.body)) ELSE Bytes(<<>>)
         IN  IF client = Null THEN st
             ELSE IF JsonIds(payload).requestId \in DOMAIN st.pending
             THEN IF ~HasResponseFields(payload)
                  THEN [st EXCEPT !.logs = Append(@, ProcessingError)]
                  ELSE
                  [st EXCEPT
                     !.res = WriteRes(@, st.pending[response.requestId].res,
                                      response.statusCode, NoHeaders, body),
                     !.pending = MapDelete(@, response.requestId)]
             ELSE [st EXCEPT !.logs = Append(@, UnmatchedWarning(JsonIds(payload)))]

\* the callback with an unmatched response treated as an error of the stream:
\* the pending requests are dropped
OnDataUnmatchedFatal(st, payload) ==
    IF ~IsJson(payload)
    THEN [st EXCEPT !.logs = Append(@, ProcessingError)]
    ELSE LET response == ParseResponse(payload)
             client == FindClient(st.clients, st.ids, JsonIds(payload).clientId)
             body == IF response.body # <<>> THEN Bytes(FromBase64(response.body)) ELSE Bytes(<<>>)
         IN  IF client = Null THEN st
             ELSE IF JsonIds(payload).requestId \in DOMAIN st.pending
             THEN IF ~HasResponseFields(payload)
                  THEN [st EXCEPT !.logs = Append(@, ProcessingError)]
                  ELSE
                  [st EXCEPT
                     !.res = WriteRes(@, st.pending[response.requestId].res,
                                      response.statusCode, response.headers, body),
                     !.pending = MapDelete(@, response.requestId)]
             ELSE [st EXCEPT !.logs = Append(@, UnmatchedWarning(JsonIds(payload))),
                             !.pending = <<>>]

\* the callback of setupMessageBuffer, applied to one frame
OnData(st, payload) ==
    IF ~IsJson(payload)
    THEN [st EXCEPT !.logs = Append(@, ProcessingError)]
    ELSE LET response == ParseResponse(payload)
             client == FindClient(st.clients, st.ids, JsonIds(payload).clientId)
             body == IF response.body # <<>> THEN Bytes(FromBase64(response.body)) ELSE Bytes(<<>>)
         IN  IF client = Null THEN st
             ELSE IF JsonIds(payload).requestId \in DOMAIN st.pending
             THEN IF ~HasResponseFields(payload)
                  THEN [st EXCEPT !.logs = Append(@, ProcessingError)]
                  ELSE
                  [st EXCEPT
                     !.res = WriteRes(@, st.pending[response.requestId].res,
                                      response.statusCode, response.headers, body),
                     !.pending = MapDelete(@, response.requestId)]
             ELSE [st EXCEPT !.logs = Append(@, UnmatchedWarning(JsonIds(payload)))]

RECURSIVE Deliver(_, _)
Deliver(st, frames) ==
    IF frames = <<>> THEN st
    ELSE Deliver(OnData(st, Head(frames).payload), Tail(frames))

\* the loop of the socket 'end' and 'error' handlers over pendingRequests.entries()
RECURSIVE FailPending(_, _, _, _)
FailPending(pend, rw, clientId, text) ==
    LET hit == {k \in DOMAIN pend : EntryClientId(pend[k]) = clientId}
    IN  IF hit = {} THEN [pending |-> pend, res |-> rw]
        ELSE LET k == CHOOSE x \in hit : TRUE
             IN  FailPending(MapDelete(pend, k),
                             WriteRes(rw, pend[k].res, 503, NoHeaders, Text(text)),
                             clientId, text)

\* handleSocketConnection: the next socket is accepted and given a random id
HandleSocketConnection(s, id) ==
    /\ sockState[s] = "none"
    /\ \A t \in Sockets : t < s => sockState[t] # "none"
    /\ sockState' = [sockState EXCEPT ![s] = "open"]
    /\ sockId' = [sockId EXCEPT ![s] = id]
    /\ clients' = Append(clients, s)
    /\ NoSink
    /\ UNCHANGED nonServerVars
    /\ UNCHANGED << buffer, pendingRequests, sockOut, wire, httpVars, resWrites, histVars >>

\* socket.on('data'): the next n bytes of the socket go through the shared buffer
SocketData(s, n) ==
    /\ sockState[s] = "open"
    /\ n \in 1..Len(wire[s])
    /\ n < Len(wire[s]) => splits < MaxSplits
    /\ splits' = IF n < Len(wire[s]) THEN splits + 1 ELSE splits
    /\ LET c == Consume(buffer, bufSrc, Take(wire[s], n), s)
           st == Deliver([clients |-> clients, ids |-> sockId, pending |-> pendingRequests,
                          res |-> resWrites, logs |-> <<>>], c.frames)
       IN  /\ buffer' = c.buffer
           /\ bufSrc' = c.src
           /\ delivered' = c.frames
           /\ pendingRequests' = st.pending
           /\ resWrites' = st.res
           /\ logs' = st.logs
           /\ inflight' = [inflight EXCEPT ![s] = Drop(@, Min(Len(@), Len(c.frames)))]
    /\ wire' = [wire EXCEPT ![s] = Drop(@, n)]
    /\ UNCHANGED << clients, sockState, sockId, sockOut, httpVars, nsent, expired, honest >>
    /\ UNCHANGED nonServerVars

\* the 'end' handler without this.clients.delete(socket)
SocketEndKeepsClient(s) ==
    /\ sockState[s] = "open"
    /\ LET f == FailPending(pendingRequests, resWrites, sockId[s], "Client disconnected")
       IN  /\ pendingRequests' = f.pending
           /\ resWrites' = f.res
    /\ clients' = clients
    /\ sockState' = [sockState EXCEPT ![s] = "ended"]
    /\ wire' = [wire EXCEPT ![s] = <<>>]
    /\ inflight' = [inflight EXCEPT ![s] = <<>>]
    /\ NoSink
    /\ UNCHANGED nonServerVars
    /\ UNCHANGED << buffer, sockId, sockOut, httpVars, bufSrc, nsent, splits, expired, honest >>

\* socket.on('end'); bytes the agent had not got onto the wire never arrive
SocketEnd(s) ==
    /\ sockState[s] = "open"
    /\ LET f == FailPending(pendingRequests, resWrites, sockId[s], "Client disconnected")
       IN  /\ pendingRequests' = f.pending
           /\ resWrites' = f.res
    /\ clients' = Remove(clients, s)
    /\ sockState' = [sockState EXCEPT ![s] = "ended"]
    /\ wire' = [wire EXCEPT ![s] = <<>>]
    /\ inflight' = [inflight EXCEPT ![s] = <<>>]
    /\ NoSink
    /\ UNCHANGED nonServerVars
    /\ UNCHANGED << buffer, sockId, sockOut, httpVars, bufSrc, nsent, splits, expired, honest >>

\* socket.on('error'); the socket is destroyed
SocketError(s) ==
    /\ sockState[s] \in {"open", "ended"}
    /\ LET f == FailPending(pendingRequests, resWrites, sockId[s], "Client error")
       IN  /\ pendingRequests' = f.pending
           /\ resWrites' = f.res
    /\ clients' = Remove(clients, s)
    /\ sockState' = [sockState EXCEPT ![s] = "error"]
    /\ wire' = [wire EXCEPT ![s] = <<>>]
    /\ inflight' = [inflight EXCEPT ![s] = <<>>]
    /\ NoSink
    /\ UNCHANGED nonServerVars
    /\ UNCHANGED << buffer, sockId, sockOut, httpVars, bufSrc, nsent, splits, expired, honest >>

\* the URL of exchange h: every caller asks for a resource of its own
Url(h) == h

\* handleRequest with the entry stored before the clients.size check
HandleRequestStoreFirst(h, id) ==
    /\ phase[h] = "idle"
    /\ \A g \in Requests : g < h => phase[g] # "idle"
    /\ IF Len(clients) = 0
       THEN /\ resWrites' = WriteRes(resWrites, h, 503, NoHeaders, Text("No clients available"))
            /\ phase' = [phase EXCEPT ![h] = "rejected"]
            /\ pendingRequests' = MapSet(pendingRequests, id, PendingEntry(h))
            /\ UNCHANGED << reqId, reqClient >>
       ELSE /\ reqClient' = [reqClient EXCEPT ![h] = clients[1]]
            /\ reqId' = [reqId EXCEPT ![h] = id]
            /\ pendingRequests' = MapSet(pendingRequests, id, PendingEntry(h))
            /\ phase' = [phase EXCEPT ![h] = "reading"]
            /\ UNCHANGED resWrites
    /\ NoSink
    /\ UNCHANGED nonServerVars
    /\ UNCHANGED << clients, buffer, sockState, sockId, sockOut, wire, reqBody, histVars >>

\* handleRequest without pendingRequests.set
HandleRequestNoStore(h, id) ==
    /\ phase[h] = "idle"
    /\ \A g \in Requests : g < h => phase[g] # "idle"
    /\ IF Len(clients) = 0
       THEN /\ resWrites' = WriteRes(resWrites, h, 503, NoHeaders, Text("No clients available"))
            /\ phase' = [phase EXCEPT ![h] = "rejected"]
            /\ UNCHANGED << reqId, reqClient >>
       ELSE /\ reqClient' = [reqClient EXCEPT ![h] = clients[1]]
            /\ reqId' = [reqId EXCEPT ![h] = id]
            /\ phase' = [phase EXCEPT ![h] = "reading"]
            /\ UNCHANGED resWrites
    /\ NoSink
    /\ UNCHANGED nonServerVars
    /\ UNCHANGED << clients, buffer, pendingRequests, sockState, sockId, sockOut, wire, reqBody,
                    histVars >>

\* handleRequest taking the socket registered last
HandleRequestLastClient(h, id) ==
    /\ phase[h] = "idle"
    /\ \A g \in Requests : g < h => phase[g] # "idle"
    /\ IF Len(clients) = 0
       THEN /\ resWrites' = WriteRes(resWrites, h, 503, NoHeaders, Text("No clients available"))
            /\ phase' = [phase EXCEPT ![h] = "rejected"]
            /\ UNCHANGED << pendingRequests, reqId, reqClient >>
       ELSE /\ reqClient' = [reqClient EXCEPT ![h] = clients[Len(clients)]]
            /\ reqId' = [reqId EXCEPT ![h] = id]
            /\ pendingRequests' = MapSet(pendingRequests, id, PendingEntry(h))
            /\ phase' = [phase EXCEPT ![h] = "reading"]
            /\ UNCHANGED resWrites
    /\ NoSink
    /\ UNCHANGED nonServerVars
    /\ UNCHANGED << clients, buffer, sockState, sockId, sockOut, wire, reqBody, histVars >>

\* handleRequest for the next HTTP exchange; id is the value of Math.random
HandleRequest(h, id) ==
    /\ phase[h] = "idle"
    /\ \A g \in Requests : g < h => phase[g] # "idle"
    /\ IF Len(clients) = 0
       THEN /\ resWrites' = WriteRes(resWrites, h, 503, NoHeaders, Text("No clients available"))
            /\ phase' = [phase EXCEPT ![h] = "rejected"]
            /\ UNCHANGED << pendingRequests, reqId, reqClient >>
       ELSE /\ reqClient' = [reqClient EXCEPT ![h] = clients[1]]
            /\ reqId' = [reqId EXCEPT ![h] = id]
            /\ pendingRequests' = MapSet(pendingRequests, id, PendingEntry(h))
            /\ phase' = [phase EXCEPT ![h] = "reading"]
            /\ UNCHANGED resWrites
    /\ NoSink
    /\ UNCHANGED nonServerVars
    /\ UNCHANGED << clients, buffer, sockState, sockId, sockOut, wire, reqBody, histVars >>

BodyChunks == { <<7>> }

\* req.on('data')
ReqData(h, chunk) ==
    /\ phase[h] = "reading"
    /\ Len(reqBody[h]) < MaxChunks
    /\ reqBody' = [reqBody EXCEPT ![h] = Append(@, chunk)]
    /\ NoSink
    /\ UNCHANGED nonServerVars
    /\ UNCHANGED << clients, buffer, pendingRequests, sockState, sockId, sockOut, wire,
                    phase, reqId, reqClient, resWrites, histVars >>

\* Buffer.concat
RECURSIVE Concat(_)
Concat(chunks) == IF chunks = <<>> THEN <<>> ELSE Head(chunks) \o Concat(Tail(chunks))

\* the requestData of exchange h at req 'end'
RequestData(h) ==
    [clientId |-> sockId[reqClient[h]], requestId |-> reqId[h], method |-> MethodGet,
     url |-> Url(h), headers |-> SomeHeaders, body |-> Concat(reqBody[h])]

\* socket.write(data): the bytes go out on an open socket; on a socket that has
\* ended or was destroyed the write fails and nothing is sent
SocketWrite(out, s, data) ==
    IF sockState[s] = "open" THEN [out EXCEPT ![s] = @ \o data] ELSE out

\* req 'end' with client.write(JSON.stringify(requestData)): no produce
ReqEndUnframed(h) ==
    /\ phase[h] = "reading"
    /\ phase' = [phase EXCEPT ![h] = "ended"]
    /\ sockOut' = SocketWrite(sockOut, reqClient[h], StringifyRequest(RequestData(h)))
    /\ NoSink
    /\ UNCHANGED nonServerVars
    /\ UNCHANGED << clients, buffer, pendingRequests, sockState, sockId, wire, reqId,
                    reqClient, reqBody, resWrites, histVars >>

\* req.on('end'): the frame is written to the socket chosen in handleRequest
ReqEnd(h) ==
    /\ phase[h] = "reading"
    /\ phase' = [phase EXCEPT ![h] = "ended"]
    /\ sockOut' = SocketWrite(sockOut, reqClient[h], Produce(StringifyRequest(RequestData(h))))
    /\ NoSink
    /\ UNCHANGED nonServerVars
    /\ UNCHANGED << clients, buffer, pendingRequests, sockState, sockId, wire, reqId,
                    reqClient, reqBody, resWrites, histVars >>

\* req.on('aborted'): the caller goes away before its response is finished
ReqAborted(h) ==
    /\ phase[h] \in {"reading", "ended"}
    /\ resWrites[h] = <<>>
    /\ phase' = [phase EXCEPT ![h] = "aborted"]
    /\ pendingRequests' = MapDelete(pendingRequests, reqId[h])
    /\ NoSink
    /\ UNCHANGED nonServerVars
    /\ UNCHANGED << clients, buffer, sockState, sockId, sockOut, wire, reqId, reqClient,
                    reqBody, resWrites, histVars >>

\* request_timeout elapses for an exchange still waiting for its response;
\* handleRequest arms no timer, so no handler of the broker runs
Timeout(h) ==
    /\ phase[h] \in {"reading", "ended"}
    /\ resWrites[h] = <<>>
    /\ ~expired[h]
    /\ expired' = [expired EXCEPT ![h] = TRUE]
    /\ NoSink
    /\ UNCHANGED nonServerVars
    /\ UNCHANGED << clients, buffer, pendingRequests, sockState, sockId, sockOut, wire,
                    httpVars, resWrites, bufSrc, inflight, nsent, splits, honest >>

(***************************************************************************)
(* The agents, as the broker sees them.                                    *)
(***************************************************************************)
\* the request envelopes the broker has written to socket s
RequestsSentTo(s) ==
    LET frames == ConsumeLoop(sockOut[s], sockOut[s], <<>>).frames
    IN  {ParseRequest(frames[i].payload) :
            i \in {j \in 1..Len(frames) : ParsesAsRequest(frames[j].payload)}}

InternalServerError == <<21>>

\* what an agent answers to a request: the origin's reply, which names the URL
\* asked for, or the synthetic 500
Answers(rq) ==
    { StringifyResponse([clientId |-> rq.clientId, requestId |-> rq.requestId,
                         statusCode |-> 200, headers |-> SomeHeaders,
                         body |-> ToBase64(<<rq.url>>)]),
      StringifyResponse([clientId |-> rq.clientId, requestId |-> rq.requestId,
                         statusCode |-> 500, headers |-> NoHeaders,
                         body |-> ToBase64(InternalServerError)]) }

HonestPayloads(s) == UNION {Answers(rq) : rq \in RequestsSentTo(s)}

\* response envelopes no request asked for, with an empty body
ForgedPayloads ==
    { StringifyResponse([clientId |-> c, requestId |-> r, statusCode |-> 200,
                         headers |-> SomeHeaders, body |-> <<>>]) :
        c \in IdSpace, r \in IdSpace }

\* a payload that is not JSON
Malformed == <<123>>

\* an agent writes one frame to its tunnel socket
AgentSend(s, payload) ==
    /\ sockState[s] = "open"
    /\ nsent < MaxSend
    /\ nsent' = nsent + 1
    /\ wire' = [wire EXCEPT ![s] = @ \o Produce(payload)]
    /\ inflight' = [inflight EXCEPT ![s] = Append(@, payload)]
    /\ honest' = (honest /\ payload \in HonestPayloads(s))
    /\ NoSink
    /\ UNCHANGED nonServerVars
    /\ UNCHANGED << clients, buffer, pendingRequests, sockState, sockId, sockOut, httpVars,
                    resWrites, bufSrc, splits, expired >>

(***************************************************************************)
(* A MessageBuffer on its own: one peer writes frames, consume is given    *)
(* the bytes in reads of any size and the callback records the payloads.   *)
(***************************************************************************)
MaxFrames == 2
MaxCut == 5
MaxCalls == 3

\* the shortest payload whose length needs the second byte of the prefix
LongPayload == [i \in 1..256 |-> 1]

\* payloads: empty, a NUL, ones that read as a length prefix, and a long one
CodecPayloads == { <<>>, <<0>>, <<0, 0, 0, 1>>, <<0, 0, 0, 0, 9>>, LongPayload }

\* the 16 MiB a frame may measure at most; MessageBuffer itself knows no limit
MaxFrameBytes == 16 * 1048576

\* a length prefix of 16 MiB + 1 and the first byte of what would follow
OversizeHeader == WriteUInt32BE(MaxFrameBytes + 1)

RawBytes == OversizeHeader \o <<9>>

\* the while loop of consume on the buffer, the frames in delivery order
MbLoop(buf) == ConsumeLoop(buf, buf, <<>>)

\* the peer calls produce(P) and writes the result
MbProduce(P) ==
    /\ Len(mbSent) < MaxFrames
    /\ ~mbRaw
    /\ mbSent' = Append(mbSent, P)
    /\ mbFeed' = mbFeed \o Produce(P)
    /\ UNCHANGED << mbBuffer, mbSink, mbRaw, mbCalls, mbSplit, serverVars, agentVars, restVars >>

\* the peer writes a length prefix above the maximum frame size
MbWriteRaw ==
    /\ ~mbRaw
    /\ mbRaw' = TRUE
    /\ mbFeed' = mbFeed \o RawBytes
    /\ UNCHANGED << mbBuffer, mbSink, mbSent, mbCalls, mbSplit, serverVars, agentVars, restVars >>

\* consume(data) with the next n bytes; the callback appends to the sink
MbConsume(n) ==
    /\ n \in 1..Len(mbFeed)
    /\ n <= MaxCut \/ n = Len(mbFeed)
    /\ LET c == MbLoop(mbBuffer \o Take(mbFeed, n))
       IN  /\ mbBuffer' = c.buffer
           /\ mbSink' = mbSink \o [i \in 1..Len(c.frames) |-> c.frames[i].payload]
           /\ mbSplit' = (mbSplit \/ Len(c.buffer) \in 1..3)
    /\ mbFeed' = Drop(mbFeed, n)
    /\ mbCalls' = Min(mbCalls + 1, MaxCalls)
    /\ UNCHANGED << mbSent, mbRaw, serverVars, agentVars, restVars >>

(***************************************************************************)
(* ProxyClient, the agent (src/unnamed/part_000), and the broker as the    *)
(* agent sees it.  A socket that has closed is forgotten at the next       *)
(* connect(); an upstream call remembers whether the socket its request    *)
(* came in on is still this.socket.                                        *)
(***************************************************************************)
MaxAgentRecv == 2
MaxDials == 3

\* new net.Socket() / tls.connect(): a socket that is connecting
NewSocket == [state |-> "dialing", in |-> <<>>, out |-> <<>>]

AgLive(sk) == sk.state \in {"dialing", "connected"}

\* a step of the agent that calls neither the callback, the logger nor write
AgQuiet == agLogs' = <<>> /\ agDelivered' = <<>> /\ agWrote' = <<>>

\* connect(): this.socket becomes a new socket
ConnectSocks(socks) == Append(SelectSeq(socks, AgLive), NewSocket)

\* the calls in flight were received on a socket that is this.socket no more
MarkStale(calls) == [i \in 1..Len(calls) |-> [calls[i] EXCEPT !.stale = TRUE]]

\* client.connect() at start-up
AgentStart ==
    /\ agSocks = <<>> /\ agDials = 0
    /\ agSocks' = ConnectSocks(agSocks)
    /\ agDials' = 1
    /\ AgQuiet
    /\ UNCHANGED << agTimers, agBuffer, agCalls, agRecv, brokerUp, serverVars, codecVars, restVars >>

\* the timer of setTimeout(() => this.connect(), delay) fires
TimerFires ==
    /\ agTimers > 0
    /\ agTimers' = agTimers - 1
    /\ agSocks' = ConnectSocks(agSocks)
    /\ agCalls' = MarkStale(agCalls)
    /\ agDials' = Min(agDials + 1, MaxDials)
    /\ AgQuiet
    /\ UNCHANGED << agBuffer, agRecv, brokerUp, serverVars, codecVars, restVars >>

\* the dial succeeds: the connect callback only logs at info
DialOk(i) ==
    /\ i \in DOMAIN agSocks
    /\ agSocks[i].state = "dialing"
    /\ brokerUp
    /\ agSocks' = [agSocks EXCEPT ![i].state = "connected"]
    /\ AgQuiet
    /\ UNCHANGED << agTimers, agBuffer, agCalls, agRecv, agDials, brokerUp,
                    serverVars, codecVars, restVars >>

SocketErrorLog == [level |-> "error", message |-> "Socket error"]

\* the close handler with the timer armed only once a connection was established
SocketClosedNoRetryOnDial(i, hadError) ==
    /\ i \in DOMAIN agSocks
    /\ AgLive(agSocks[i])
    /\ agSocks' = [agSocks EXCEPT ![i] = [state |-> "closed", in |-> <<>>, out |-> @.out]]
    /\ agTimers' = IF agSocks[i].state = "connected" THEN agTimers + 1 ELSE agTimers
    /\ agLogs' = IF hadError THEN << SocketErrorLog >> ELSE <<>>
    /\ agDelivered' = <<>>
    /\ agWrote' = <<>>
    /\ UNCHANGED << agBuffer, agCalls, agRecv, agDials, brokerUp, serverVars, codecVars, restVars >>

\* socket 'error' (when there was one) and then 'close': the error is logged
\* and one reconnect timer is armed; unread bytes are lost
SocketClosed(i, hadError) ==
    /\ i \in DOMAIN agSocks
    /\ AgLive(agSocks[i])
    /\ agSocks' = [agSocks EXCEPT ![i] = [state |-> "closed", in |-> <<>>, out |-> @.out]]
    /\ agTimers' = agTimers + 1
    /\ agLogs' = IF hadError THEN << SocketErrorLog >> ELSE <<>>
    /\ agDelivered' = <<>>
    /\ agWrote' = <<>>
    /\ UNCHANGED << agBuffer, agCalls, agRecv, agDials, brokerUp, serverVars, codecVars, restVars >>

\* a dial to a broker that is not reachable fails
DialFail(i) ==
    /\ i \in DOMAIN agSocks
    /\ agSocks[i].state = "dialing"
    /\ ~brokerUp
    /\ SocketClosed(i, TRUE)

\* an established connection is lost, with or without an error
ConnLost(i, hadError) ==
    /\ i \in DOMAIN agSocks
    /\ agSocks[i].state = "connected"
    /\ SocketClosed(i, hadError)

\* the broker starts or stops accepting connections
BrokerToggle ==
    /\ brokerUp' = ~brokerUp
    /\ AgQuiet
    /\ UNCHANGED << agSocks, agTimers, agBuffer, agCalls, agRecv, agDials,
                    serverVars, codecVars, restVars >>

\* the request envelopes the broker sends: requestData of server.js
BrokerRequests ==
    { StringifyRequest([clientId |-> 1, requestId |-> r, method |-> MethodGet, url |-> u,
                        headers |-> SomeHeaders, body |-> <<>>]) :
        r \in IdSpace, u \in {1, 2} }

\* the broker writes one frame to the connection
BrokerSend(i, payload) ==
    /\ i \in DOMAIN agSocks
    /\ agSocks[i].state = "connected"
    /\ agRecv < MaxAgentRecv
    /\ agRecv' = agRecv + 1
    /\ agSocks' = [agSocks EXCEPT ![i].in = @ \o Produce(payload)]
    /\ AgQuiet
    /\ UNCHANGED << agTimers, agBuffer, agCalls, agDials, brokerUp, serverVars, codecVars, restVars >>

\* handleRequest up to req.end(): an upstream call is in flight
NewCall(rq, onThisSocket) ==
    [clientId |-> rq.clientId, requestId |-> rq.requestId, url |-> rq.url,
     stale |-> ~onThisSocket]

\* the callback that logs nothing in its catch
AgentOnDataSilentCatch(st, payload, onThisSocket) ==
    IF ~IsJson(payload)
    THEN st
    ELSE IF JsonType(payload) = TypeRequest
    THEN [st EXCEPT !.calls = Append(@, NewCall(ParseRequest(payload), onThisSocket))]
    ELSE st

\* the callback of ProxyClient.setupMessageBuffer, applied to one frame
AgentOnData(st, payload, onThisSocket) ==
    IF ~IsJson(payload)
    THEN [st EXCEPT !.logs = Append(@, ProcessingError)]
    ELSE IF JsonType(payload) = TypeRequest
    THEN [st EXCEPT !.calls = Append(@, NewCall(ParseRequest(payload), onThisSocket))]
    ELSE st

RECURSIVE AgentDeliver(_, _, _)
AgentDeliver(st, frames, onThisSocket) ==
    IF frames = <<>> THEN st
    ELSE AgentDeliver(AgentOnData(st, Head(frames).payload, onThisSocket), Tail(frames),
                      onThisSocket)

\* socket.on('data') of socket i with the next n bytes
AgentData(i, n) ==
    /\ i \in DOMAIN agSocks
    /\ agSocks[i].state = "connected"
    /\ n \in 1..Len(agSocks[i].in)
    /\ n <= MaxCut \/ n = Len(agSocks[i].in)
    /\ LET c == Consume(agBuffer, agBuffer, Take(agSocks[i].in, n), i)
           st == AgentDeliver([calls |-> agCalls, logs |-> <<>>], c.frames, i = Len(agSocks))
       IN  /\ agBuffer' = c.buffer
           /\ agDelivered' = [k \in 1..Len(c.frames) |-> c.frames[k].payload]
           /\ agCalls' = st.calls
           /\ agLogs' = st.logs
    /\ agSocks' = [agSocks EXCEPT ![i].in = Drop(@, n)]
    /\ agWrote' = <<>>
    /\ UNCHANGED << agTimers, agRecv, agDials, brokerUp, serverVars, codecVars, restVars >>

\* this.socket.write(data): the bytes go out on a connected socket and are
\* queued for the connection on one that is connecting; on a closed socket the
\* write fails and nothing is sent
AgentWrite(socks, data) ==
    IF AgLive(socks[Len(socks)]) THEN [socks EXCEPT ![Len(socks)].out = @ \o data] ELSE socks

WriteRecord(call, payload) ==
    [payload |-> payload, stale |-> call.stale, to |-> agSocks[Len(agSocks)].state]

\* the response envelope of res 'end' and the one of req 'error'
ResponseData(call, statusCode) ==
    [clientId |-> call.clientId, requestId |-> call.requestId, statusCode |-> statusCode,
     headers |-> SomeHeaders, body |-> ToBase64(<< call.url >>)]

ErrorResponse(call) ==
    [clientId |-> call.clientId, requestId |-> call.requestId, statusCode |-> 500,
     headers |-> NoHeaders, body |-> ToBase64(InternalServerError)]

RemoveAt(s, c) == Take(s, c - 1) \o Drop(s, c)

UpstreamErrorLog == [level |-> "error", message |-> "Error making proxy request"]

\* the completion of call c writes the envelope without produce
UpstreamDoneUnframed(c, envelope, logged) ==
    /\ c \in DOMAIN agCalls
    /\ agSocks' = AgentWrite(agSocks, StringifyResponse(envelope))
    /\ agWrote' = << WriteRecord(agCalls[c], StringifyResponse(envelope)) >>
    /\ agCalls' = RemoveAt(agCalls, c)
    /\ agLogs' = logged
    /\ agDelivered' = <<>>
    /\ UNCHANGED << agTimers, agBuffer, agRecv, agDials, brokerUp, serverVars, codecVars, restVars >>

\* call c completes and its envelope is written to this.socket
UpstreamDone(c, envelope, logged) ==
    /\ c \in DOMAIN agCalls
    /\ agSocks' = AgentWrite(agSocks, Produce(StringifyResponse(envelope)))
    /\ agWrote' = << WriteRecord(agCalls[c], StringifyResponse(envelope)) >>
    /\ agCalls' = RemoveAt(agCalls, c)
    /\ agLogs' = logged
    /\ agDelivered' = <<>>
    /\ UNCHANGED << agTimers, agBuffer, agRecv, agDials, brokerUp, serverVars, codecVars, restVars >>

\* res 'end' of the upstream call c
UpstreamEnd(c, statusCode) ==
    /\ c \in DOMAIN agCalls
    /\ UpstreamDone(c, ResponseData(agCalls[c], statusCode), <<>>)

\* req 'error' of the upstream call c: the error is logged, the 500 is written
UpstreamError(c) ==
    /\ c \in DOMAIN agCalls
    /\ UpstreamDone(c, ErrorResponse(agCalls[c]), << UpstreamErrorLog >>)

(***************************************************************************)
(* URL resolution of the agent's handleRequest (src/unnamed/part_000 and   *)
(* src/client.js).  A URL is a sequence of tokens; a rule's pattern is an  *)
(* optional ^, a literal and an optional final group that takes the rest,  *)
(* its replacement a literal and an optional final $1.                     *)
(***************************************************************************)
MaxRules == 2
MaxPath == 3

Http == "http://"
Https == "https://"

ExampleCom == << Http, "example.com" >>
Origin9090 == << Http, "origin:9090" >>

PathTokens == {"/", "api", "users", "hello"}

RECURSIVE TokenSeqs(_)
TokenSeqs(n) ==
    IF n = 0 THEN { <<>> }
    ELSE LET shorter == TokenSeqs(n - 1)
         IN  shorter \cup { Append(s, c) : s \in { x \in shorter : Len(x) = n - 1 },
                                           c \in PathTokens }

\* req.url of an origin-form request: a path, which starts with one slash
RelativeUrls ==
    { << "/" >> \o s : s \in { x \in TokenSeqs(MaxPath) : x = <<>> \/ x[1] # "/" } }

\* req.url of an absolute-form request
AbsoluteUrls == { ExampleCom \o << "/", "api", "/", "users" >>, Origin9090 \o << "/", "hello" >> }

RequestUrls == RelativeUrls \cup AbsoluteUrls

\* '^/api/' and a group that takes the rest -> '/v1/$1': the shipped rule
ApiRule ==
    [anchored |-> TRUE, literal |-> << "/", "api", "/" >>, capture |-> TRUE,
     replacement |-> << "/", "v1", "/" >>, group |-> TRUE]

\* '^/hello' -> '/world'
HelloRule ==
    [anchored |-> TRUE, literal |-> << "/", "hello" >>, capture |-> FALSE,
     replacement |-> << "/", "world" >>, group |-> FALSE]

\* '/api/' -> '/v1/'
ApiAnywhereRule ==
    [anchored |-> FALSE, literal |-> << "/", "api", "/" >>, capture |-> FALSE,
     replacement |-> << "/", "v1", "/" >>, group |-> FALSE]

\* '/v1/' and a group that takes the rest -> '/hello'
V1Rule ==
    [anchored |-> FALSE, literal |-> << "/", "v1", "/" >>, capture |-> TRUE,
     replacement |-> << "/", "hello" >>, group |-> FALSE]

\* '^http://example.com' -> 'http://origin:9090'
HostRule ==
    [anchored |-> TRUE, literal |-> ExampleCom, capture |-> FALSE,
     replacement |-> Origin9090, group |-> FALSE]

\* 'users' -> 'users/$1': the pattern has no group, so $1 stays as it is
UsersRule ==
    [anchored |-> FALSE, literal |-> << "users" >>, capture |-> FALSE,
     replacement |-> << "users", "/" >>, group |-> TRUE]

Rules == {ApiRule, HelloRule, ApiAnywhereRule, V1Rule, HostRule, UsersRule}

RECURSIVE RuleLists(_)
RuleLists(n) ==
    IF n = 0 THEN { <<>> }
    ELSE LET shorter == RuleLists(n - 1)
         IN  shorter \cup { Append(s, r) : s \in { x \in shorter : Len(x) = n - 1 },
                                           r \in Rules }

Configs ==
    { [defaultTarget |-> d, rewriteRules |-> rs] :
        d \in {ExampleCom, Origin9090}, rs \in RuleLists(MaxRules) }

\* config.client.proxy of src/unnamed/part_003
ShippedConfig == [defaultTarget |-> ExampleCom, rewriteRules |-> << ApiRule >>]

NoConfig == [defaultTarget |-> <<>>, rewriteRules |-> <<>>]

\* the first index at which the pattern matches, 0 when it does not
MatchIndex(rule, str) ==
    LET n == Len(rule.literal)
        at == { i \in 1..(Len(str) - n + 1) :
                   /\ rule.anchored => i = 1
                   /\ SubSeq(str, i, i + n - 1) = rule.literal }
    IN  IF at = {} THEN 0 ELSE CHOOSE i \in at : \A j \in at : i <= j

\* regex.test(str)
RegexTest(rule, str) == MatchIndex(rule, str) > 0

\* str.replace(regex, replacement) of a regex without the g flag: the first
\* match is replaced; the group takes the rest of the string and $1 stands for it
StringReplace(rule, str) ==
    LET i == MatchIndex(rule, str)
        after == Drop(str, i + Len(rule.literal) - 1)
        dollar == IF ~rule.group THEN <<>>
                  ELSE IF rule.capture THEN after ELSE << "$1" >>
    IN  IF i = 0 THEN str
        ELSE Take(str, i - 1) \o rule.replacement \o dollar
                 \o (IF rule.capture THEN <<>> ELSE after)

\* the loop without its break
RECURSIVE RewriteLoopNoBreak(_, _, _)
RewriteLoopNoBreak(rules, k, finalUrl) ==
    IF k > Len(rules) THEN [url |-> finalUrl, tested |-> k - 1]
    ELSE IF RegexTest(rules[k], finalUrl)
         THEN RewriteLoopNoBreak(rules, k + 1, StringReplace(rules[k], finalUrl))
         ELSE RewriteLoopNoBreak(rules, k + 1, finalUrl)

\* the for loop of applyRewriteRules from rule k on
RECURSIVE RewriteLoop(_, _, _)
RewriteLoop(rules, k, finalUrl) ==
    IF k > Len(rules) THEN [url |-> finalUrl, tested |-> k - 1]
    ELSE IF RegexTest(rules[k], finalUrl)
         THEN [url |-> StringReplace(rules[k], finalUrl), tested |-> k]
         ELSE RewriteLoop(rules, k + 1, finalUrl)

applyRewriteRules(config, requestUrl) == RewriteLoop(config.rewriteRules, 1, requestUrl)

IsAbsolute(targetUrl) == targetUrl[1] \in {Http, Https}

\* new URL(relative, base).toString() for a path and a base without a path
NewURL(relative, base) == base \o relative

\* the part of handleRequest before the upstream request is built: the URL
\* is made absolute, then the rules are applied
Resolve(config, url) ==
    applyRewriteRules(config,
                      IF IsAbsolute(url) THEN url ELSE NewURL(url, config.defaultTarget))

notRewriteVars == << serverVars, codecVars, agentVars, envVars, bodyVars, goCodecVars,
                    goBrokerVars, goAgentVars, requestVars >>

\* require('./config')
RwLoadConfig(config) ==
    /\ rwConfig = NoConfig
    /\ rwConfig' = config
    /\ UNCHANGED << rwUrl, rwTarget, rwTested, notRewriteVars >>

\* handleRequest is given a request envelope with this url
RwHandleRequest(url) ==
    /\ rwConfig # NoConfig
    /\ rwUrl' = url
    /\ rwTarget' = Resolve(rwConfig, url).url
    /\ rwTested' = Resolve(rwConfig, url).tested
    /\ UNCHANGED << rwConfig, notRewriteVars >>

(***************************************************************************)
(* The body of a request: server.js collects it and puts it in the request *)
(* envelope, handleRequest of the agent writes it to the upstream request. *)
(***************************************************************************)
MaxBody == 2

BodyBytes == {0, 1, 255}

RECURSIVE ByteSeqs(_)
ByteSeqs(n) ==
    IF n = 0 THEN { <<>> }
    ELSE LET shorter == ByteSeqs(n - 1)
         IN  shorter \cup { Append(s, b) : s \in { x \in shorter : Len(x) = n - 1 },
                                           b \in BodyBytes }

\* the chunks of a body: none, one, or two
ChunkLists ==
    { <<>> } \cup { << a >> : a \in ByteSeqs(MaxBody) \ { <<>> } }
             \cup { << a, b >> : a, b \in ByteSeqs(MaxBody) \ { <<>> } }

\* requestData.body as JSON.parse gives it to the agent: the object
\* {type: 'Buffer', data: [...]} that JSON.stringify made of the Buffer
ParseRequestBody(p) ==
    IF p[7] = BufferTag THEN [type |-> "Buffer", data |-> Drop(p, 7)]
    ELSE [string |-> Drop(p, 6)]

\* requestData.body.length: an object has none (undefined), a string has one
BodyLength(body) == IF "string" \in DOMAIN body THEN Len(body.string) ELSE Absent

\* if (requestData.body && requestData.body.length > 0) req.write(Buffer.from(body));
\* undefined > 0 is false
UpstreamBody(p) ==
    LET body == ParseRequestBody(p)
    IN  IF BodyLength(body) # Absent /\ BodyLength(body) > 0 THEN body.string ELSE <<>>

notBodyVars == << serverVars, codecVars, agentVars, envVars, rewriteVars, goCodecVars,
                 goBrokerVars, goAgentVars, requestVars >>

\* req 'end' at the broker after these chunks
RtReqEnd(chunks) ==
    /\ rtStage \in {"idle", "issued"}
    /\ rtStage' = "forwarded"
    /\ rtChunks' = chunks
    /\ rtEnvelope' = StringifyRequest([clientId |-> 1, requestId |-> 1, method |-> MethodGet,
                                       url |-> 1, headers |-> SomeHeaders,
                                       body |-> Concat(chunks)])
    /\ rtUpstream' = <<>>
    /\ UNCHANGED notBodyVars

\* handleRequest of the agent up to req.end()
RtHandleRequest ==
    /\ rtStage = "forwarded"
    /\ rtStage' = "issued"
    /\ rtUpstream' = UpstreamBody(rtEnvelope)
    /\ UNCHANGED << rtChunks, rtEnvelope, notBodyVars >>

(***************************************************************************)
(* The Go MessageBuffer (src/unnamed/part_002), given the same calls as    *)
(* the JS MessageBuffer.  Lengths stay below 2^31, where uint32 and int    *)
(* hold the same values.                                                   *)
(***************************************************************************)
\* binary.BigEndian.Uint32
BigEndianUint32(b) == b[4] + b[3] * 256 + b[2] * 65536 + b[1] * 16777216

\* binary.BigEndian.PutUint32 into a 4-byte slice
PutUint32(v) ==
    << (v \div 16777216) % 256, (v \div 65536) % 256, (v \div 256) % 256, v % 256 >>

\* MessageBuffer.Produce
GoProduce(data) == PutUint32(Len(data)) \o data

\* bytes.Buffer.Read(p) with len(p) = n: the first n bytes leave the buffer
BufferRead(buf, n) == [data |-> Take(buf, n), rest |-> Drop(buf, n)]

\* the loop that takes a message only when a byte follows it
RECURSIVE GoConsumeLoopStrict(_, _)
GoConsumeLoopStrict(buf, messages) ==
    IF Len(buf) < 4 THEN [buffer |-> buf, messages |-> messages]
    ELSE LET length == BigEndianUint32(Take(buf, 4))
         IN  IF Len(buf) <= length + 4 THEN [buffer |-> buf, messages |-> messages]
             ELSE LET message == BufferRead(BufferRead(buf, 4).rest, length)
                  IN  GoConsumeLoopStrict(message.rest, Append(messages, message.data))

\* the for loop of MessageBuffer.Consume
RECURSIVE GoConsumeLoop(_, _)
GoConsumeLoop(buf, messages) ==
    IF Len(buf) < 4 THEN [buffer |-> buf, messages |-> messages]
    ELSE LET length == BigEndianUint32(Take(buf, 4))
         IN  IF Len(buf) < length + 4 THEN [buffer |-> buf, messages |-> messages]
             ELSE LET message == BufferRead(BufferRead(buf, 4).rest, length)
                  IN  GoConsumeLoop(message.rest, Append(messages, message.data))

\* MessageBuffer.Consume: mb.buffer.Write(data), then the loop
GoConsume(buf, data) == GoConsumeLoop(buf \o data, <<>>)

notCodecPairVars == << serverVars, agentVars, envVars, rewriteVars, bodyVars, goBrokerVars,
                      goAgentVars, requestVars >>

\* produce(P) and Produce(P); the peer writes what the JS one returned
PairProduce(P) ==
    /\ Len(mbSent) < MaxFrames
    /\ ~mbRaw
    /\ mbSent' = Append(mbSent, P)
    /\ mbFeed' = mbFeed \o Produce(P)
    /\ gmProduced' = gmProduced \o GoProduce(P)
    /\ UNCHANGED << mbBuffer, mbSink, mbRaw, mbCalls, mbSplit, gmBuffer, gmSink,
                    notCodecPairVars >>

\* the peer writes a length prefix with no frame behind it
PairWriteRaw ==
    /\ ~mbRaw
    /\ mbRaw' = TRUE
    /\ mbFeed' = mbFeed \o RawBytes
    /\ UNCHANGED << mbBuffer, mbSink, mbSent, mbCalls, mbSplit, goCodecVars,
                    notCodecPairVars >>

\* consume(data) and Consume(data) with the same next n bytes
PairConsume(n) ==
    /\ n \in 1..Len(mbFeed)
    /\ n <= MaxCut \/ n = Len(mbFeed)
    /\ LET c == MbLoop(mbBuffer \o Take(mbFeed, n))
       IN  /\ mbBuffer' = c.buffer
           /\ mbSink' = mbSink \o [i \in 1..Len(c.frames) |-> c.frames[i].payload]
           /\ mbSplit' = (mbSplit \/ Len(c.buffer) \in 1..3)
    /\ LET g == GoConsume(gmBuffer, Take(mbFeed, n))
       IN  /\ gmBuffer' = g.buffer
           /\ gmSink' = gmSink \o g.messages
    /\ mbFeed' = Drop(mbFeed, n)
    /\ mbCalls' = Min(mbCalls + 1, MaxCalls)
    /\ UNCHANGED << mbSent, mbRaw, gmProduced, notCodecPairVars >>

(***************************************************************************)
(* ProxyServer of the Go broker (src/unnamed/part_002).  Every HTTP        *)
(* request runs handleHTTPRequest in a goroutine of its own, every agent   *)
(* connection runs handleSocketConnection in one; a step is what a         *)
(* goroutine does between two points where another may run.  A requestID   *)
(* is the number of the request.  Where the Go memory model or net/http    *)
(* leaves the outcome open the runtime may end the process.                *)
(***************************************************************************)
MaxGoReq == 2
MaxGoConn == 2

GoRequests == 1..MaxGoReq
GoConns == 1..MaxGoConn

\* a nil net.Conn
NoConn == 0

NoOne == << >>
Unlocked == [w |-> NoOne, r |-> {}]

HandlerOf(h) == << "handleHTTPRequest", h >>
ReaderOf(c) == << "handleSocketConnection", c >>

\* sync.RWMutex: Lock, RLock and what Unlock / RUnlock leave
CanLock(m) == m.w = NoOne /\ m.r = {}
CanRLock(m) == m.w = NoOne
Lock(m, g) == [m EXCEPT !.w = g]
RLock(m, g) == [m EXCEPT !.r = @ \cup {g}]
Unlock(m) == [m EXCEPT !.w = NoOne]
RUnlock(m, g) == [m EXCEPT !.r = @ \ {g}]

\* a call on the ResponseWriter of a request
ResCall(by, status) == [by |-> by, status |-> status]

notGoBrokerVars == << serverVars, codecVars, agentVars, envVars, rewriteVars, bodyVars,
                      goCodecVars, goAgentVars, requestVars >>

\* handleHTTPRequest starts: s.clientsMutex.RLock()
HttpBegin(h) ==
    /\ ~gbFatal
    /\ gbHandler[h] = "idle"
    /\ CanRLock(gbClientsMutex)
    /\ gbClientsMutex' = RLock(gbClientsMutex, HandlerOf(h))
    /\ gbHandler' = [gbHandler EXCEPT ![h] = "checking"]
    /\ UNCHANGED << gbClients, gbPending, gbRequestsMutex, gbClient, gbRes, gbDone, gbTimer,
                    gbConn, gbMessage, gbAnswered, gbFatal, notGoBrokerVars >>

\* len(s.clients) == 0: RUnlock and 503; otherwise RUnlock
HttpCheck(h) ==
    /\ ~gbFatal
    /\ gbHandler[h] = "checking"
    /\ gbClientsMutex' = RUnlock(gbClientsMutex, HandlerOf(h))
    /\ IF gbClients = {}
       THEN /\ gbRes' = [gbRes EXCEPT ![h] = Append(@, ResCall("handler", 503))]
            /\ gbHandler' = [gbHandler EXCEPT ![h] = "returned"]
       ELSE /\ gbHandler' = [gbHandler EXCEPT ![h] = "checked"]
            /\ UNCHANGED gbRes
    /\ UNCHANGED << gbClients, gbPending, gbRequestsMutex, gbClient, gbDone, gbTimer,
                    gbConn, gbMessage, gbAnswered, gbFatal, notGoBrokerVars >>

\* the second s.clientsMutex.RLock()
HttpPickLock(h) ==
    /\ ~gbFatal
    /\ gbHandler[h] = "checked"
    /\ CanRLock(gbClientsMutex)
    /\ gbClientsMutex' = RLock(gbClientsMutex, HandlerOf(h))
    /\ gbHandler' = [gbHandler EXCEPT ![h] = "picking"]
    /\ UNCHANGED << gbClients, gbPending, gbRequestsMutex, gbClient, gbRes, gbDone, gbTimer,
                    gbConn, gbMessage, gbAnswered, gbFatal, notGoBrokerVars >>

\* for id, conn := range s.clients { ...; break }: any entry, nil when the map
\* has become empty; RUnlock
HttpPick(h, c) ==
    /\ ~gbFatal
    /\ gbHandler[h] = "picking"
    /\ IF gbClients = {} THEN c = NoConn ELSE c \in gbClients
    /\ gbClient' = [gbClient EXCEPT ![h] = c]
    /\ gbClientsMutex' = RUnlock(gbClientsMutex, HandlerOf(h))
    /\ gbHandler' = [gbHandler EXCEPT ![h] = "picked"]
    /\ UNCHANGED << gbClients, gbPending, gbRequestsMutex, gbRes, gbDone, gbTimer,
                    gbConn, gbMessage, gbAnswered, gbFatal, notGoBrokerVars >>

\* s.requestsMutex.Lock()
HttpStoreLock(h) ==
    /\ ~gbFatal
    /\ gbHandler[h] = "picked"
    /\ CanLock(gbRequestsMutex)
    /\ gbRequestsMutex' = Lock(gbRequestsMutex, HandlerOf(h))
    /\ gbHandler' = [gbHandler EXCEPT ![h] = "storing"]
    /\ UNCHANGED << gbClients, gbPending, gbClientsMutex, gbClient, gbRes, gbDone, gbTimer,
                    gbConn, gbMessage, gbAnswered, gbFatal, notGoBrokerVars >>

\* s.pendingRequests[requestID] = &PendingRequest{...}; Unlock
HttpStore(h) ==
    /\ ~gbFatal
    /\ gbHandler[h] = "storing"
    /\ gbPending' = gbPending \cup {h}
    /\ gbRequestsMutex' = Unlock(gbRequestsMutex)
    /\ gbHandler' = [gbHandler EXCEPT ![h] = "stored"]
    /\ UNCHANGED << gbClients, gbClientsMutex, gbClient, gbRes, gbDone, gbTimer,
                    gbConn, gbMessage, gbAnswered, gbFatal, notGoBrokerVars >>

\* client.Write(s.messageBuffer.Produce(jsonData)): a nil client panics and
\* net/http ends the handler; a closed connection gives an error and the 500;
\* otherwise the handler enters the select and time.After starts
HttpWrite(h) ==
    /\ ~gbFatal
    /\ gbHandler[h] = "stored"
    /\ IF gbClient[h] = NoConn
       THEN /\ gbHandler' = [gbHandler EXCEPT ![h] = "returned"]
            /\ UNCHANGED gbRes
       ELSE IF gbConn[gbClient[h]] \in {"closing", "closed"}
       THEN /\ gbRes' = [gbRes EXCEPT ![h] = Append(@, ResCall("handler", 500))]
            /\ gbHandler' = [gbHandler EXCEPT ![h] = "returned"]
       ELSE /\ gbHandler' = [gbHandler EXCEPT ![h] = "waiting"]
            /\ UNCHANGED gbRes
    /\ UNCHANGED << gbClients, gbPending, gbClientsMutex, gbRequestsMutex, gbClient, gbDone,
                    gbTimer, gbConn, gbMessage, gbAnswered, gbFatal, notGoBrokerVars >>

\* 30 seconds have passed since the select began
TimeAfter(h) ==
    /\ ~gbFatal
    /\ gbHandler[h] = "waiting"
    /\ ~gbTimer[h]
    /\ gbTimer' = [gbTimer EXCEPT ![h] = TRUE]
    /\ UNCHANGED << gbClients, gbPending, gbClientsMutex, gbRequestsMutex, gbHandler,
                    gbClient, gbRes, gbDone, gbConn, gbMessage, gbAnswered, gbFatal,
                    notGoBrokerVars >>

\* case <-done: return
SelectDone(h) ==
    /\ ~gbFatal
    /\ gbHandler[h] = "waiting"
    /\ gbDone[h]
    /\ gbHandler' = [gbHandler EXCEPT ![h] = "returned"]
    /\ UNCHANGED << gbClients, gbPending, gbClientsMutex, gbRequestsMutex, gbClient, gbRes,
                    gbDone, gbTimer, gbConn, gbMessage, gbAnswered, gbFatal,
                    notGoBrokerVars >>

\* case <-time.After(30 * time.Second): http.Error(w, ..., 504); return
SelectTimeout(h) ==
    /\ ~gbFatal
    /\ gbHandler[h] = "waiting"
    /\ gbTimer[h]
    /\ gbRes' = [gbRes EXCEPT ![h] = Append(@, ResCall("timeout", 504))]
    /\ gbHandler' = [gbHandler EXCEPT ![h] = "returned"]
    /\ UNCHANGED << gbClients, gbPending, gbClientsMutex, gbRequestsMutex, gbClient,
                    gbDone, gbTimer, gbConn, gbMessage, gbAnswered, gbFatal,
                    notGoBrokerVars >>

\* go s.handleSocketConnection(conn): s.clientsMutex.Lock()
ConnAccept(c) ==
    /\ ~gbFatal
    /\ gbConn[c] = "none"
    /\ CanLock(gbClientsMutex)
    /\ gbClientsMutex' = Lock(gbClientsMutex, ReaderOf(c))
    /\ gbConn' = [gbConn EXCEPT ![c] = "registering"]
    /\ UNCHANGED << gbClients, gbPending, gbRequestsMutex, gbHandler, gbClient, gbRes,
                    gbDone, gbTimer, gbMessage, gbAnswered, gbFatal, notGoBrokerVars >>

\* s.clients[clientID] = conn; Unlock; the read loop begins
ConnRegister(c) ==
    /\ ~gbFatal
    /\ gbConn[c] = "registering"
    /\ gbClients' = gbClients \cup {c}
    /\ gbClientsMutex' = Unlock(gbClientsMutex)
    /\ gbConn' = [gbConn EXCEPT ![c] = "reading"]
    /\ UNCHANGED << gbPending, gbRequestsMutex, gbHandler, gbClient, gbRes,
                    gbDone, gbTimer, gbMessage, gbAnswered, gbFatal, notGoBrokerVars >>

\* the requests whose frame was written to connection c and that the agent
\* has not answered yet
Answerable(c) ==
    { h \in GoRequests :
        /\ gbClient[h] = c
        /\ gbHandler[h] \in {"waiting", "returned"}
        /\ gbRes[h] = <<>> \/ gbRes[h][1].by # "handler"
        /\ h \notin gbAnswered }

\* conn.Read returns the response envelope for request r; Consume hands it
\* to handleMessage, which unmarshals it and calls s.requestsMutex.RLock()
ConnRead(c, r) ==
    /\ ~gbFatal
    /\ gbConn[c] = "reading"
    /\ r \in Answerable(c)
    /\ CanRLock(gbRequestsMutex)
    /\ gbRequestsMutex' = RLock(gbRequestsMutex, ReaderOf(c))
    /\ gbAnswered' = gbAnswered \cup {r}
    /\ gbMessage' = [gbMessage EXCEPT ![c] = r]
    /\ gbConn' = [gbConn EXCEPT ![c] = "looking"]
    /\ UNCHANGED << gbClients, gbPending, gbClientsMutex, gbHandler, gbClient, gbRes,
                    gbDone, gbTimer, gbFatal, notGoBrokerVars >>

\* another goroutine is inside a section of s.requestsMutex
OthersInRequestsMutex(c) ==
    gbRequestsMutex.w # NoOne \/ gbRequestsMutex.r \ {ReaderOf(c)} # {}

\* pendingReq, exists := s.pendingRequests[requestID]; if exists { delete };
\* RUnlock.  The delete runs under the read lock: with another reader inside
\* the map is read and written at once and the runtime may end the process.
Lookup(c, fatal) ==
    /\ ~gbFatal
    /\ gbConn[c] = "looking"
    /\ fatal => (gbMessage[c] \in gbPending /\ OthersInRequestsMutex(c))
    /\ gbFatal' = fatal
    /\ gbPending' = gbPending \ {gbMessage[c]}
    /\ gbRequestsMutex' = RUnlock(gbRequestsMutex, ReaderOf(c))
    /\ IF gbMessage[c] \in gbPending
       THEN /\ gbConn' = [gbConn EXCEPT ![c] = "found"]
            /\ UNCHANGED gbMessage
       ELSE /\ gbConn' = [gbConn EXCEPT ![c] = "reading"]
            /\ gbMessage' = [gbMessage EXCEPT ![c] = 0]
    /\ UNCHANGED << gbClients, gbClientsMutex, gbHandler, gbClient, gbRes,
                    gbDone, gbTimer, gbAnswered, notGoBrokerVars >>

\* pendingReq.res.Header().Set, WriteHeader(statusCode), Write(bodyBytes).
\* After the handler has returned the ResponseWriter is no longer valid: the
\* calls are made all the same and the process may end in a panic.
WriteResponse(c, fatal) ==
    /\ ~gbFatal
    /\ gbConn[c] = "found"
    /\ fatal => gbHandler[gbMessage[c]] = "returned"
    /\ gbFatal' = fatal
    /\ gbRes' = [gbRes EXCEPT ![gbMessage[c]] = Append(@, ResCall("response", 200))]
    /\ gbConn' = [gbConn EXCEPT ![c] = "written"]
    /\ UNCHANGED << gbClients, gbPending, gbClientsMutex, gbRequestsMutex, gbHandler,
                    gbClient, gbDone, gbTimer, gbMessage, gbAnswered, notGoBrokerVars >>

\* close(pendingReq.done); handleMessage returns to the read loop
CloseDone(c) ==
    /\ ~gbFatal
    /\ gbConn[c] = "written"
    /\ gbDone' = [gbDone EXCEPT ![gbMessage[c]] = TRUE]
    /\ gbMessage' = [gbMessage EXCEPT ![c] = 0]
    /\ gbConn' = [gbConn EXCEPT ![c] = "reading"]
    /\ UNCHANGED << gbClients, gbPending, gbClientsMutex, gbRequestsMutex, gbHandler,
                    gbClient, gbRes, gbTimer, gbAnswered, gbFatal, notGoBrokerVars >>

\* conn.Read fails (EOF or error): the deferred function runs conn.Close()
\* and s.clientsMutex.Lock()
ConnReadError(c) ==
    /\ ~gbFatal
    /\ gbConn[c] = "reading"
    /\ CanLock(gbClientsMutex)
    /\ gbClientsMutex' = Lock(gbClientsMutex, ReaderOf(c))
    /\ gbConn' = [gbConn EXCEPT ![c] = "closing"]
    /\ UNCHANGED << gbClients, gbPending, gbRequestsMutex, gbHandler, gbClient, gbRes,
                    gbDone, gbTimer, gbMessage, gbAnswered, gbFatal, notGoBrokerVars >>

\* delete(s.clients, clientID); Unlock
ConnUnregister(c) ==
    /\ ~gbFatal
    /\ gbConn[c] = "closing"
    /\ gbClients' = gbClients \ {c}
    /\ gbClientsMutex' = Unlock(gbClientsMutex)
    /\ gbConn' = [gbConn EXCEPT ![c] = "closed"]
    /\ UNCHANGED << gbPending, gbRequestsMutex, gbHandler, gbClient, gbRes,
                    gbDone, gbTimer, gbMessage, gbAnswered, gbFatal, notGoBrokerVars >>

(***************************************************************************)
(* Specification.                                                          *)
(***************************************************************************)
Init ==
    /\ clients = <<>>
    /\ buffer = <<>>
    /\ pendingRequests = <<>>
    /\ sockState = [s \in Sockets |-> "none"]
    /\ sockId = [s \in Sockets |-> Null]
    /\ sockOut = [s \in Sockets |-> <<>>]
    /\ wire = [s \in Sockets |-> <<>>]
    /\ phase = [h \in Requests |-> "idle"]
    /\ reqId = [h \in Requests |-> Null]
    /\ reqClient = [h \in Requests |-> Null]
    /\ reqBody = [h \in Requests |-> <<>>]
    /\ resWrites = [h \in Requests |-> <<>>]
    /\ logs = <<>>
    /\ delivered = <<>>
    /\ bufSrc = <<>>
    /\ inflight = [s \in Sockets |-> <<>>]
    /\ nsent = 0
    /\ splits = 0
    /\ expired = [h \in Requests |-> FALSE]
    /\ honest = TRUE
    /\ mbBuffer = <<>>
    /\ mbSink = <<>>
    /\ mbFeed = <<>>
    /\ mbSent = <<>>
    /\ mbRaw = FALSE
    /\ mbCalls = 0
    /\ mbSplit = FALSE
    /\ agSocks = <<>>
    /\ agTimers = 0
    /\ agBuffer = <<>>
    /\ agCalls = <<>>
    /\ agLogs = <<>>
    /\ agDelivered = <<>>
    /\ agWrote = <<>>
    /\ agRecv = 0
    /\ agDials = 0
    /\ brokerUp = TRUE
    /\ envImpl = "none"
    /\ envRequest = <<>>
    /\ envResponse = <<>>
    /\ rwConfig = NoConfig
    /\ rwUrl = <<>>
    /\ rwTarget = <<>>
    /\ rwTested = 0
    /\ rtStage = "idle"
    /\ rtChunks = <<>>
    /\ rtEnvelope = <<>>
    /\ rtUpstream = <<>>
    /\ gmBuffer = <<>>
    /\ gmSink = <<>>
    /\ gmProduced = <<>>
    /\ gbClients = {}
    /\ gbPending = {}
    /\ gbClientsMutex = Unlocked
    /\ gbRequestsMutex = Unlocked
    /\ gbHandler = [h \in GoRequests |-> "idle"]
    /\ gbClient = [h \in GoRequests |-> NoConn]
    /\ gbRes = [h \in GoRequests |-> <<>>]
    /\ gbDone = [h \in GoRequests |-> FALSE]
    /\ gbTimer = [h \in GoRequests |-> FALSE]
    /\ gbConn = [c \in GoConns |-> "none"]
    /\ gbMessage = [c \in GoConns |-> 0]
    /\ gbAnswered = {}
    /\ gbFatal = FALSE
    /\ gaSocket = <<>>
    /\ gaBuffer = <<>>
    /\ gaHandling = <<>>
    /\ gaStarted = {}
    /\ gaWritten = <<>>
    /\ gaSent = 0
    /\ hrSocket = "connected"
    /\ hrDecoded = <<>>
    /\ hrCalls = {}
    /\ hrWritten = <<>>
    /\ hrLogs = <<>>

Next ==
    \/ \E s \in Sockets : \E id \in Draws(Range(sockId)) : HandleSocketConnection(s, id)
    \/ \E s \in Sockets : SocketData(s, Len(wire[s]))
    \/ \E s \in Sockets : SocketEnd(s)
    \/ \E s \in Sockets : SocketError(s)
    \/ \E h \in Requests : \E id \in Draws(Range(reqId)) : HandleRequest(h, id)
    \/ \E h \in Requests, chunk \in BodyChunks : ReqData(h, chunk)
    \/ \E h \in Requests : ReqEnd(h)
    \/ \E h \in Requests : ReqAborted(h)
    \/ \E s \in Sockets : \E payload \in HonestPayloads(s) \cup ForgedPayloads \cup {Malformed} :
          AgentSend(s, payload)

Spec == Init /\ [][Next]_vars

\* Agents that connect, stay connected and never answer, while time passes.
NextTimeout ==
    \/ \E s \in Sockets : \E id \in Draws(Range(sockId)) : HandleSocketConnection(s, id)
    \/ \E h \in Requests : \E id \in Draws(Range(reqId)) : HandleRequest(h, id)
    \/ \E h \in Requests, chunk \in BodyChunks : ReqData(h, chunk)
    \/ \E h \in Requests : ReqEnd(h)
    \/ \E h \in Requests : ReqAborted(h)
    \/ \E h \in Requests : Timeout(h)

SpecTimeout == Init /\ [][NextTimeout]_vars

\* The tunnel sockets alone: no HTTP caller, reads of any size.
NextTunnel ==
    \/ \E s \in Sockets : \E id \in Draws(Range(sockId)) : HandleSocketConnection(s, id)
    \/ \E s \in Sockets : \E n \in 1..Len(wire[s]) : SocketData(s, n)
    \/ \E s \in Sockets : SocketEnd(s)
    \/ \E s \in Sockets : SocketError(s)
    \/ \E s \in Sockets : \E payload \in ForgedPayloads \cup {Malformed} : AgentSend(s, payload)

SpecTunnel == Init /\ [][NextTunnel]_vars

\* A MessageBuffer and its peer.
NextCodec ==
    \/ \E P \in CodecPayloads : MbProduce(P)
    \/ MbWriteRaw
    \/ \E n \in 1..Len(mbFeed) : MbConsume(n)

SpecCodec == Init /\ [][NextCodec]_vars

\* The agent and its broker.
NextAgent ==
    \/ AgentStart
    \/ TimerFires
    \/ \E i \in DOMAIN agSocks : DialOk(i)
    \/ \E i \in DOMAIN agSocks : DialFail(i)
    \/ \E i \in DOMAIN agSocks : \E hadError \in BOOLEAN : ConnLost(i, hadError)
    \/ BrokerToggle
    \/ \E i \in DOMAIN agSocks : \E payload \in BrokerRequests \cup {Malformed, EmptyObject} :
          BrokerSend(i, payload)
    \/ \E i \in DOMAIN agSocks : \E n \in 1..Len(agSocks[i].in) : AgentData(i, n)
    \/ \E c \in DOMAIN agCalls : UpstreamEnd(c, 200)
    \/ \E c \in DOMAIN agCalls : UpstreamError(c)

SpecAgent == Init /\ [][NextAgent]_vars

(***************************************************************************)
(* The response envelopes of the three agent programs: src/client.js, the  *)
(* logging agent (src/unnamed/part_000) and the Go agent.  One request     *)
(* envelope at a time is handed to one of them and the upstream call ends  *)
(* in a response or in an error.                                           *)
(***************************************************************************)
Implementations == {"client.js", "ProxyClient", "client.go"}

UpstreamStatuses == {200, 404, 500}

EnvRequests ==
    { [clientId |-> c, requestId |-> r, url |-> u] :
        c \in 1..NumIds, r \in 1..NumIds, u \in 1..MaxReq }

\* src/client.js: responseData and errorResponse have no requestId key
ClientJsResponseData(rq, statusCode) ==
    [clientId |-> rq.clientId, requestId |-> Absent, statusCode |-> statusCode,
     headers |-> SomeHeaders, body |-> ToBase64(<< rq.url >>)]

ClientJsErrorResponse(rq) ==
    [clientId |-> rq.clientId, requestId |-> Absent, statusCode |-> 500,
     headers |-> NoHeaders, body |-> ToBase64(InternalServerError)]

\* client.go: response and errorResponse copy request["requestId"]
GoResponse(rq, statusCode) ==
    [clientId |-> rq.clientId, requestId |-> rq.requestId, statusCode |-> statusCode,
     headers |-> SomeHeaders, body |-> ToBase64(<< rq.url >>)]

GoErrorResponse(rq) ==
    [clientId |-> rq.clientId, requestId |-> rq.requestId, statusCode |-> 500,
     headers |-> NoHeaders, body |-> ToBase64(InternalServerError)]

SuccessEnvelope(impl, rq, statusCode) ==
    CASE impl = "client.js" -> ClientJsResponseData(rq, statusCode)
      [] impl = "ProxyClient" -> ResponseData(rq, statusCode)
      [] impl = "client.go" -> GoResponse(rq, statusCode)

FailureEnvelope(impl, rq) ==
    CASE impl = "client.js" -> ClientJsErrorResponse(rq)
      [] impl = "ProxyClient" -> ErrorResponse(rq)
      [] impl = "client.go" -> GoErrorResponse(rq)

EnvAnswering == envRequest # <<>> /\ envResponse = <<>>

\* a request envelope reaches handleRequest (handleMessage in Go)
EnvHandleRequest(impl, rq) ==
    /\ ~EnvAnswering
    /\ envImpl' = impl
    /\ envRequest' = << rq >>
    /\ envResponse' = <<>>
    /\ UNCHANGED << serverVars, codecVars, agentVars, pureVars >>

\* the upstream response has ended: the success path
EnvUpstreamEnd(statusCode) ==
    /\ EnvAnswering
    /\ envResponse' =
         << StringifyResponse(SuccessEnvelope(envImpl, envRequest[1], statusCode)) >>
    /\ UNCHANGED << envImpl, envRequest, serverVars, codecVars, agentVars, pureVars >>

\* the upstream call failed: the synthetic 500
EnvUpstreamError ==
    /\ EnvAnswering
    /\ envResponse' = << StringifyResponse(FailureEnvelope(envImpl, envRequest[1])) >>
    /\ UNCHANGED << envImpl, envRequest, serverVars, codecVars, agentVars, pureVars >>

\* client.go only: io.ReadAll of the upstream body failed; handleMessage
\* logs and returns without writing anything
EnvGoReadFails ==
    /\ EnvAnswering
    /\ envImpl = "client.go"
    /\ envRequest' = <<>>
    /\ UNCHANGED << envImpl, envResponse, serverVars, codecVars, agentVars, pureVars >>

NextEnvelope ==
    \/ \E impl \in Implementations, rq \in EnvRequests : EnvHandleRequest(impl, rq)
    \/ \E statusCode \in UpstreamStatuses : EnvUpstreamEnd(statusCode)
    \/ EnvUpstreamError
    \/ EnvGoReadFails

SpecEnvelope == Init /\ [][NextEnvelope]_vars

\* The agent's URL resolution alone: the configuration is loaded, requests come
NextRewrite ==
    \/ \E config \in Configs : RwLoadConfig(config)
    \/ \E url \in RequestUrls : RwHandleRequest(url)

SpecRewrite == Init /\ [][NextRewrite]_vars

\* One request body at a time through the broker and the agent
NextBody ==
    \/ \E chunks \in ChunkLists : RtReqEnd(chunks)
    \/ RtHandleRequest

SpecBody == Init /\ [][NextBody]_vars

\* The two MessageBuffers side by side.
NextCodecPair ==
    \/ \E P \in CodecPayloads : PairProduce(P)
    \/ PairWriteRaw
    \/ \E n \in 1..Len(mbFeed) : PairConsume(n)

SpecCodecPair == Init /\ [][NextCodecPair]_vars

\* The Go broker: its goroutines, the agents and the clock.
NextGoBroker ==
    \/ \E h \in GoRequests : HttpBegin(h)
    \/ \E h \in GoRequests : HttpCheck(h)
    \/ \E h \in GoRequests : HttpPickLock(h)
    \/ \E h \in GoRequests : \E c \in GoConns \cup {NoConn} : HttpPick(h, c)
    \/ \E h \in GoRequests : HttpStoreLock(h)
    \/ \E h \in GoRequests : HttpStore(h)
    \/ \E h \in GoRequests : HttpWrite(h)
    \/ \E h \in GoRequests : TimeAfter(h)
    \/ \E h \in GoRequests : SelectDone(h)
    \/ \E h \in GoRequests : SelectTimeout(h)
    \/ \E c \in GoConns : ConnAccept(c)
    \/ \E c \in GoConns : ConnRegister(c)
    \/ \E c \in GoConns : \E r \in GoRequests : ConnRead(c, r)
    \/ \E c \in GoConns : \E fatal \in BOOLEAN : Lookup(c, fatal)
    \/ \E c \in GoConns : \E fatal \in BOOLEAN : WriteResponse(c, fatal)
    \/ \E c \in GoConns : CloseDone(c)
    \/ \E c \in GoConns : ConnReadError(c)
    \/ \E c \in GoConns : ConnUnregister(c)

SpecGoBroker == Init /\ [][NextGoBroker]_vars

(***************************************************************************)
(* ProxyClient of the Go agent (src/go-reverse-proxy/client.go): one       *)
(* goroutine runs readLoop, and Consume calls handleMessage in it.         *)
(***************************************************************************)
MaxGoAgentReq == 3

\* the k-th request envelope the broker writes, for one of two URLs
GoAgentRequests(k) == { [clientId |-> 1, requestId |-> k, url |-> u] : u \in {1, 2} }

notGoAgentVars == << serverVars, codecVars, agentVars, envVars, rewriteVars, bodyVars,
                     goCodecVars, goBrokerVars, requestVars >>

\* the broker writes a request frame to the tunnel
GaBrokerSend(rq) ==
    /\ gaSent < MaxGoAgentReq
    /\ rq \in GoAgentRequests(gaSent + 1)
    /\ gaSent' = gaSent + 1
    /\ gaSocket' = Append(gaSocket, rq)
    /\ UNCHANGED << gaBuffer, gaHandling, gaStarted, gaWritten, notGoAgentVars >>

\* readLoop: c.conn.Read returns the first k frames waiting and Consume
\* begins; the loop is at Read only when Consume has returned
GaRead(k) ==
    /\ gaHandling = <<>> /\ gaBuffer = <<>>
    /\ k \in 1..Len(gaSocket)
    /\ gaBuffer' = Take(gaSocket, k)
    /\ gaSocket' = Drop(gaSocket, k)
    /\ UNCHANGED << gaHandling, gaStarted, gaWritten, gaSent, notGoAgentVars >>

\* Consume calls mb.onData(message): handleMessage runs up to client.Do,
\* which blocks this goroutine until the origin has answered
GaHandleMessage ==
    /\ gaHandling = <<>>
    /\ gaBuffer # <<>>
    /\ gaHandling' = << Head(gaBuffer) >>
    /\ gaBuffer' = Tail(gaBuffer)
    /\ gaStarted' = gaStarted \cup {Head(gaBuffer).requestId}
    /\ UNCHANGED << gaSocket, gaWritten, gaSent, notGoAgentVars >>

\* client.Do returns a response: the envelope is written, handleMessage
\* returns to the loop of Consume
GaUpstreamResponse(statusCode) ==
    /\ gaHandling # <<>>
    /\ gaWritten' = Append(gaWritten, StringifyResponse(GoResponse(gaHandling[1], statusCode)))
    /\ gaHandling' = <<>>
    /\ UNCHANGED << gaSocket, gaBuffer, gaStarted, gaSent, notGoAgentVars >>

\* client.Do returns an error: the 500 envelope is written
GaUpstreamError ==
    /\ gaHandling # <<>>
    /\ gaWritten' = Append(gaWritten, StringifyResponse(GoErrorResponse(gaHandling[1])))
    /\ gaHandling' = <<>>
    /\ UNCHANGED << gaSocket, gaBuffer, gaStarted, gaSent, notGoAgentVars >>

\* io.ReadAll(resp.Body) fails: handleMessage returns without an envelope
GaReadAllFails ==
    /\ gaHandling # <<>>
    /\ gaHandling' = <<>>
    /\ UNCHANGED << gaSocket, gaBuffer, gaStarted, gaWritten, gaSent, notGoAgentVars >>

(***************************************************************************)
(* The callback of ProxyClient.setupMessageBuffer with handleRequest       *)
(* inside its try (src/unnamed/part_000), on a tunnel that is connected.   *)
(***************************************************************************)
MaxAgentReq == 3

\* '//[': a request target whose host new URL cannot parse
BadHostUrl == << "//", "[" >>

HrUrls == { << "/", "api", "/", "users" >>, Origin9090 \o << "/", "hello" >>, BadHostUrl }

\* new URL(relative, base) throws TypeError: Invalid URL
NewURLThrows(relative, base) == relative[1] = "//" /\ relative[2] = "["

\* handleRequest throws before the upstream request exists
HandleRequestThrows(config, url) == ~IsAbsolute(url) /\ NewURLThrows(url, config.defaultTarget)

\* responseData and errorResponse, without their headers and body
HrEnvelope(call, statusCode) ==
    [type |-> TypeResponse, clientId |-> call.clientId, requestId |-> call.requestId,
     statusCode |-> statusCode]

notRequestVars == << serverVars, codecVars, agentVars, envVars, rewriteVars, bodyVars,
                     goCodecVars, goBrokerVars, goAgentVars >>

\* the callback is given a request envelope with this url and the next
\* requestId: handleRequest runs inside the try, and what it throws is caught
\* and logged
HrOnData(url) ==
    /\ hrSocket = "connected"
    /\ Len(hrDecoded) < MaxAgentReq
    /\ hrDecoded' = Append(hrDecoded, url)
    /\ IF HandleRequestThrows(ShippedConfig, url)
       THEN /\ hrLogs' = Append(hrLogs, ProcessingError)
            /\ UNCHANGED hrCalls
       ELSE /\ hrCalls' = hrCalls \cup { [clientId |-> 1, requestId |-> Len(hrDecoded) + 1,
                                          url |-> Resolve(ShippedConfig, url).url] }
            /\ UNCHANGED hrLogs
    /\ UNCHANGED << hrSocket, hrWritten, notRequestVars >>

\* res 'end' of an upstream call: the response envelope is written
HrUpstreamEnd(call, statusCode) ==
    /\ call \in hrCalls
    /\ hrCalls' = hrCalls \ {call}
    /\ hrWritten' = IF hrSocket = "connected"
                    THEN Append(hrWritten, HrEnvelope(call, statusCode)) ELSE hrWritten
    /\ UNCHANGED << hrSocket, hrDecoded, hrLogs, notRequestVars >>

\* req 'error' of an upstream call: the error is logged, the 500 is written
HrUpstreamError(call) ==
    /\ call \in hrCalls
    /\ hrCalls' = hrCalls \ {call}
    /\ hrLogs' = Append(hrLogs, UpstreamErrorLog)
    /\ hrWritten' = IF hrSocket = "connected"
                    THEN Append(hrWritten, HrEnvelope(call, 500)) ELSE hrWritten
    /\ UNCHANGED << hrSocket, hrDecoded, notRequestVars >>

\* socket 'close': the tunnel is gone
HrClose ==
    /\ hrSocket = "connected"
    /\ hrSocket' = "closed"
    /\ UNCHANGED << hrDecoded, hrCalls, hrWritten, hrLogs, notRequestVars >>

\* The agent's callback with an origin that answers every call or fails it.
NextRequest ==
    \/ \E url \in HrUrls : HrOnData(url)
    \/ \E call \in hrCalls : HrUpstreamEnd(call, 200)
    \/ \E call \in hrCalls : HrUpstreamError(call)
    \/ HrClose

SpecRequestLive ==
    /\ Init /\ [][NextRequest]_vars
    /\ WF_vars(\E call \in hrCalls : HrUpstreamEnd(call, 200) \/ HrUpstreamError(call))

\* The Go agent with its broker and its origin.
NextGoAgent ==
    \/ \E k \in 1..MaxGoAgentReq : \E rq \in GoAgentRequests(k) : GaBrokerSend(rq)
    \/ \E k \in 1..MaxGoAgentReq : GaRead(k)
    \/ GaHandleMessage
    \/ \E statusCode \in UpstreamStatuses : GaUpstreamResponse(statusCode)
    \/ GaUpstreamError
    \/ GaReadAllFails

\* The goroutine of readLoop runs whenever it can; the origin answers when
\* it likes, or never.
SpecGoAgentLive ==
    /\ Init /\ [][NextGoAgent]_vars
    /\ WF_vars(\E k \in 1..MaxGoAgentReq : GaRead(k))
    /\ WF_vars(GaHandleMessage)

\* One process of the repository with the peers it may meet: it runs either
\* server.js, with agents that answer, forge and garble, or the agent, with a
\* broker that sends requests and garbage.
ServerIdle ==
    /\ \A s \in Sockets : sockState[s] = "none"
    /\ \A h \in Requests : phase[h] = "idle"

AgentIdle == agSocks = <<>>

NextProgram ==
    \/ \E s \in Sockets : \E id \in Draws(Range(sockId)) :
          AgentIdle /\ HandleSocketConnection(s, id)
    \/ \E s \in Sockets : AgentIdle /\ SocketData(s, Len(wire[s]))
    \/ \E h \in Requests : \E id \in Draws(Range(reqId)) : AgentIdle /\ HandleRequest(h, id)
    \/ \E h \in Requests : AgentIdle /\ ReqEnd(h)
    \/ \E s \in Sockets : \E payload \in HonestPayloads(s) \cup {Malformed, EmptyObject} :
          AgentIdle /\ AgentSend(s, payload)
    \/ ServerIdle /\ AgentStart
    \/ ServerIdle /\ TimerFires
    \/ \E i \in DOMAIN agSocks : ServerIdle /\ DialOk(i)
    \/ \E i \in DOMAIN agSocks : \E hadError \in BOOLEAN : ServerIdle /\ ConnLost(i, hadError)
    \/ \E i \in DOMAIN agSocks : \E payload \in BrokerRequests \cup {Malformed, EmptyObject} :
          ServerIdle /\ BrokerSend(i, payload)
    \/ \E i \in DOMAIN agSocks : \E n \in 1..Len(agSocks[i].in) : ServerIdle /\ AgentData(i, n)
    \/ \E c \in DOMAIN agCalls : ServerIdle /\ UpstreamEnd(c, 200)
    \/ \E c \in DOMAIN agCalls : ServerIdle /\ UpstreamError(c)

SpecProgram == Init /\ [][NextProgram]_vars

\* an envelope with the fields of this response envelope and another type
Retyped(payload, type) == << type >> \o Tail(payload)

\* The same program with peers that also send envelopes of other types: the
\* agent's answers under the type 'ping' to the broker, response envelopes
\* and pings to the agent.
NextDispatch ==
    \/ \E s \in Sockets : \E id \in Draws(Range(sockId)) :
          AgentIdle /\ HandleSocketConnection(s, id)
    \/ \E s \in Sockets : AgentIdle /\ SocketData(s, Len(wire[s]))
    \/ \E h \in Requests : \E id \in Draws(Range(reqId)) : AgentIdle /\ HandleRequest(h, id)
    \/ \E h \in Requests : AgentIdle /\ ReqEnd(h)
    \/ \E s \in Sockets :
          \E payload \in HonestPayloads(s) \cup { Retyped(a, TypePing) : a \in HonestPayloads(s) }
                              \cup { StringifyRequest(RequestData(h)) :
                                        h \in { g \in Requests : phase[g] = "ended" } } :
          AgentIdle /\ AgentSend(s, payload)
    \/ ServerIdle /\ AgentStart
    \/ \E i \in DOMAIN agSocks : ServerIdle /\ DialOk(i)
    \/ \E i \in DOMAIN agSocks :
          \E payload \in BrokerRequests \cup ForgedPayloads
                              \cup { Retyped(f, TypePing) : f \in ForgedPayloads } :
          ServerIdle /\ BrokerSend(i, payload)
    \/ \E i \in DOMAIN agSocks : \E n \in 1..Len(agSocks[i].in) : ServerIdle /\ AgentData(i, n)
    \/ \E c \in DOMAIN agCalls : ServerIdle /\ UpstreamEnd(c, 200)
    \/ \E c \in DOMAIN agCalls : ServerIdle /\ UpstreamError(c)

SpecDispatch == Init /\ [][NextDispatch]_vars

\* The same with the event loop at work: start-up runs, an armed timer fires,
\* and a dial ends, in a connection when the broker accepts and in an error
\* when it does not.
SpecAgentLive ==
    /\ Init /\ [][NextAgent]_vars
    /\ WF_vars(AgentStart)
    /\ WF_vars(TimerFires)
    /\ WF_vars(\E i \in DOMAIN agSocks : DialOk(i))
    /\ WF_vars(\E i \in DOMAIN agSocks : DialFail(i))

(***************************************************************************)
(* Properties.                                                             *)
(***************************************************************************)
\* exchange h is registered and its entry is the one stored under its id
HasEntry(h) ==
    /\ phase[h] \in {"reading", "ended"}
    /\ reqId[h] \in DOMAIN pendingRequests
    /\ pendingRequests[reqId[h]].res = h

Registered(h) == phase[h] \in {"reading", "ended", "aborted"}

Accepted(s) == sockState[s] # "none"

\* the response envelopes among the frames of the last read
IsResponse(f) == ParsesAsResponse(f.payload)

Envelope(f) == ParseResponse(f.payload)

\* C1: whatever the order of response envelopes (repeated ones included),
\* socket 'end', socket 'error' and caller abort, the responder of every HTTP
\* exchange is written at most once.
C1_WrittenAtMostOnce == \A h \in Requests : Len(resWrites[h]) <= 1

\* a second envelope for an answered request arrived and was a no-op
C1_Witness ==
    \E h \in Requests :
        /\ phase[h] = "ended"
        /\ Len(resWrites[h]) = 1
        /\ resWrites[h][1].status = 200
        /\ sockState[reqClient[h]] = "open"
        /\ Len(delivered) = 1
        /\ IsResponse(delivered[1])
        /\ Envelope(delivered[1]).requestId = reqId[h]
        /\ logs = << UnmatchedWarning(Envelope(delivered[1])) >>
        /\ \A g \in Requests \ {h} : ~Registered(g)

\* C2: when an agent's socket ends, every request dispatched to it that is
\* still pending is removed and its caller gets 503 'Client disconnected'.
C2_DisconnectFailsPending ==
    [][\A s \in Sockets :
         (sockState[s] = "open" /\ sockState'[s] = "ended") =>
            \A h \in Requests :
               (HasEntry(h) /\ reqClient[h] = s) =>
                  /\ reqId[h] \notin DOMAIN pendingRequests'
                  /\ resWrites'[h] = << [status |-> 503, headers |-> NoHeaders,
                                         body |-> Text("Client disconnected")] >>]_vars

\* C3: a request dispatched to an agent that stays connected and never
\* answers is resolved with 504 once request_timeout has elapsed, and its
\* entry is removed.
C3_TimeoutResolves ==
    \A h \in Requests :
        (expired[h] /\ phase[h] = "ended" /\ sockState[reqClient[h]] = "open") =>
            /\ Len(resWrites[h]) = 1
            /\ resWrites[h][1].status = 504
            /\ ~HasEntry(h)

\* C4: with agents that only answer the requests they were sent, a responder
\* receives the origin's reply to its own request and never the reply to
\* another request (the origin's 200 reply names the URL that was asked for).
C4_NoCrossRequestBleed ==
    honest =>
        \A h \in Requests : \A i \in 1..Len(resWrites[h]) :
            resWrites[h][i].status = 200 => resWrites[h][i].body = Bytes(<< Url(h) >>)

\* C5: an HTTP request that arrives while no agent is registered is answered
\* 503 'No clients available'; no pending entry is created and no frame is
\* written to any socket.
C5_NoClientsRejected ==
    [][\A h \in Requests :
         (phase[h] = "idle" /\ phase'[h] # "idle" /\ Len(clients) = 0) =>
            /\ phase'[h] = "rejected"
            /\ resWrites'[h] = << [status |-> 503, headers |-> NoHeaders,
                                   body |-> Text("No clients available")] >>
            /\ pendingRequests' = pendingRequests
            /\ sockOut' = sockOut]_vars

\* a request was rejected after every agent had gone, with another request
\* still pending
C5_Witness ==
    \E h, g \in Requests :
        /\ phase[h] = "rejected"
        /\ Len(resWrites[h]) = 1
        /\ HasEntry(g)
        /\ \E s \in Sockets : Accepted(s)

\* the frames of a read that are response envelopes without a pending entry
Unmatched(f, pend) == IsResponse(f) /\ Envelope(f).requestId \notin DOMAIN pend

\* the warnings the sink owes for a read of unmatched envelopes, when it logs
\* each of them / only those whose clientId names a registered socket
WarningsFor(frames) == [i \in 1..Len(frames) |-> UnmatchedWarning(Envelope(frames[i]))]

FromRegistered(frames, cl, ids) ==
    SelectSeq(frames, LAMBDA f : FindClient(cl, ids, Envelope(f).clientId) # Null)

UnmatchedRead ==
    /\ Len(delivered') >= 1
    /\ \A i \in 1..Len(delivered') : Unmatched(delivered'[i], pendingRequests)

Discarded ==
    /\ resWrites' = resWrites
    /\ pendingRequests' = pendingRequests
    /\ clients' = clients
    /\ sockState' = sockState
    /\ buffer' = <<>>

\* C6 (as claimed): response envelopes whose requestId has no pending entry
\* are each logged and discarded: no responder is written, pendingRequests
\* and the registry are unchanged, the socket stays open and the frames after
\* them are processed.
C6_UnmatchedLoggedAndDiscarded ==
    [][UnmatchedRead => (Discarded /\ logs' = WarningsFor(delivered'))]_vars

\* C6 (amended): such envelopes are always discarded, and those of them whose
\* clientId is the id of a registered socket are logged, the others are not.
C6_UnmatchedDiscarded ==
    [][UnmatchedRead =>
         (Discarded /\ logs' = WarningsFor(FromRegistered(delivered', clients, sockId)))]_vars

\* two unmatched envelopes came in one read while a request was pending; both
\* were logged
C6_Witness ==
    /\ Len(delivered) = 2
    /\ \A i \in 1..2 : Unmatched(delivered[i], pendingRequests)
    /\ logs = WarningsFor(delivered)
    /\ \E h \in Requests : HasEntry(h) /\ resWrites[h] = <<>>

\* a read of exactly one well-formed response envelope that has a pending entry
MatchedRead ==
    /\ Len(delivered') = 1
    /\ IsResponse(delivered'[1])
    /\ Envelope(delivered'[1]).requestId \in DOMAIN pendingRequests

Completed ==
    LET e == Envelope(delivered'[1])
    IN  /\ pendingRequests' = MapDelete(pendingRequests, e.requestId)
        /\ resWrites' = WriteRes(resWrites, pendingRequests[e.requestId].res,
                                 e.statusCode, e.headers, Bytes(FromBase64(e.body)))

\* C7 (as claimed): a well-formed response envelope whose requestId has a
\* pending entry removes the entry and writes its status, headers and body to
\* the entry's responder; the entry is the only precondition.
C7_EntryAloneCompletes == [][MatchedRead => Completed]_vars

\* C7 (amended): it does so when its clientId is the id of a registered socket.
C7_EntryAndClientComplete ==
    [][(MatchedRead /\ FindClient(clients, sockId, Envelope(delivered'[1]).clientId) # Null)
          => Completed]_vars

\* an envelope completed a pending request: the entry is gone and the
\* responder holds the envelope's status, headers and body
C7_Witness ==
    /\ Len(delivered) = 1
    /\ IsResponse(delivered[1])
    /\ \E h \in Requests :
          /\ phase[h] = "ended"
          /\ reqId[h] = Envelope(delivered[1]).requestId
          /\ reqId[h] \notin DOMAIN pendingRequests
          /\ resWrites[h] = << [status |-> Envelope(delivered[1]).statusCode,
                                headers |-> SomeHeaders,
                                body |-> Bytes(FromBase64(Envelope(delivered[1]).body))] >>
          /\ Envelope(delivered[1]).body # <<>>

\* C8: no two HTTP requests are given the same requestId.
C8_RequestIdsUnique ==
    \A h, g \in Requests : (h # g /\ Registered(h) /\ Registered(g)) => reqId[h] # reqId[g]

\* C9: no two agent connections are given the same agent id.
C9_AgentIdsUnique ==
    \A s, t \in Sockets : (s # t /\ Accepted(s) /\ Accepted(t)) => sockId[s] # sockId[t]

\* a read from socket s
ReadFrom(s) == sockState[s] = "open" /\ sockState'[s] = "open" /\ Len(wire'[s]) < Len(wire[s])

\* C10: the bytes of each agent socket are decoded as a frame stream of their
\* own: a read from a socket hands the sink the next frames that agent sent,
\* in its order and made of its bytes only, and all of them once all of its
\* bytes have been read.
C10_PerSocketFrameStreams ==
    [][\A s \in Sockets :
         ReadFrom(s) =>
            /\ Len(delivered') <= Len(inflight[s])
            /\ \A i \in 1..Len(delivered') :
                  /\ delivered'[i].from = {s}
                  /\ delivered'[i].payload = inflight[s][i]
            /\ wire'[s] = <<>> => Len(delivered') = Len(inflight[s])]_vars

\* frame lengths on both sides of every byte boundary of the prefix
SampleLengths == {0, 1, 255, 256, 65535, 65536, 16777215, 16777216, 2147483647}

\* C11: for every payload P, a fresh MessageBuffer that is given produce(P) in
\* one consume call hands its callback exactly one payload, P itself, and is
\* left with an empty buffer; the 4-byte prefix reads back as the length written.
C11_FrameRoundTrip ==
    [][/\ \A n \in SampleLengths : ReadUInt32BE(WriteUInt32BE(n)) = n
       /\ (/\ mbCalls = 0 /\ ~mbRaw
           /\ Len(mbSent) = 1
           /\ mbFeed = Produce(mbSent[1])
           /\ mbFeed' = <<>>)
          => (mbSink' = << mbSent[1] >> /\ mbBuffer' = <<>>)]_vars

\* the 256-byte payload went through one consume call
C11_Witness ==
    /\ mbCalls = 1
    /\ mbSent = << LongPayload >>
    /\ mbSink = << LongPayload >>
    /\ mbBuffer = <<>>
    /\ mbFeed = <<>>

\* produce(P1) .. produce(Pn) concatenated
RECURSIVE Encode(_)
Encode(ps) == IF ps = <<>> THEN <<>> ELSE Produce(Head(ps)) \o Encode(Tail(ps))

\* C12: however the concatenation of produce(P1) .. produce(Pn) is cut into
\* reads (1-byte reads and cuts inside the length prefix included), the
\* callback receives P1 .. Pn, each once and in order: at any time it has
\* received the first frames sent, the bytes not yet decoded are exactly the
\* frames still owed, and once every byte is read every payload was delivered.
C12_FrameSplitting ==
    ~mbRaw =>
        /\ Len(mbSink) <= Len(mbSent)
        /\ mbSink = Take(mbSent, Len(mbSink))
        /\ mbBuffer \o mbFeed = Encode(Drop(mbSent, Len(mbSink)))
        /\ mbFeed = <<>> => (mbSink = mbSent /\ mbBuffer = <<>>)

\* two different payloads were delivered after three or more reads, one of
\* which ended inside a length prefix
C12_Witness ==
    /\ ~mbRaw
    /\ Len(mbSent) = 2
    /\ mbSent[1] # mbSent[2]
    /\ mbSink = mbSent
    /\ mbSplit
    /\ mbCalls = MaxCalls
    /\ mbFeed = <<>>

\* C13: a length prefix above the maximum frame size makes consume fail; it
\* never waits for the frame, holding the bytes that follow the prefix.
C13_OversizeFrameRejected ==
    ~(Len(mbBuffer) > 4 /\ ReadUInt32BE(mbBuffer) > MaxFrameBytes)


\* the frames written to socket s so far
FramesWrittenTo(s) == ConsumeLoop(sockOut[s], sockOut[s], <<>>).frames

\* the write of exchange h's request frame failed: req 'end' has run and the
\* frame is not among the bytes written to the selected socket
WriteFailed(h) ==
    /\ phase[h] = "ended"
    /\ \A i \in 1..Len(FramesWrittenTo(reqClient[h])) :
          FramesWrittenTo(reqClient[h])[i].payload # StringifyRequest(RequestData(h))

\* C16: when the write of a request frame to the selected agent's socket has
\* failed and the socket reports the error, the pending request is failed (its
\* entry removed, 503 to its caller) and the agent is unregistered.
C16_WriteFailureFailsRequest ==
    [][\A h \in Requests :
         (/\ HasEntry(h) /\ WriteFailed(h) /\ resWrites[h] = <<>>
          /\ sockState[reqClient[h]] # "error"
          /\ sockState'[reqClient[h]] = "error")
         => (/\ reqId[h] \notin DOMAIN pendingRequests'
             /\ Len(resWrites'[h]) = 1
             /\ resWrites'[h][1].status = 503
             /\ \A i \in 1..Len(clients') : clients'[i] # reqClient[h])]_vars

\* the synthetic 500 envelope of the agent for the request envelope of exchange h
Synthetic500(h) ==
    StringifyResponse([clientId |-> sockId[reqClient[h]], requestId |-> reqId[h],
                       statusCode |-> 500, headers |-> NoHeaders,
                       body |-> ToBase64(InternalServerError)])

\* C17: the envelope an agent writes when the upstream call of a request
\* fails carries the request's requestId, status 500, empty headers and the
\* body 'Internal Server Error', and the broker delivers it to the caller
\* waiting for that request as a 500 with that body.
C17_UpstreamFailureDelivered ==
    [][\A h \in Requests :
         (/\ honest
          /\ phase[h] = "ended" /\ resWrites[h] = <<>> /\ ~WriteFailed(h)
          /\ ReadFrom(reqClient[h])
          /\ delivered' = << [payload |-> Synthetic500(h), from |-> {reqClient[h]}] >>)
         => resWrites'[h] = << [status |-> 500, headers |-> NoHeaders,
                                body |-> Bytes(InternalServerError)] >>]_vars

\* a payload that is neither a response nor a request envelope
NotEnvelope(p) == ~ParsesAsResponse(p) /\ ~ParsesAsRequest(p)

NotJson(p) == ~IsJson(p)

ErrorLogs(n) == [k \in 1..n |-> ProcessingError]

Payloads(frames) == [k \in 1..Len(frames) |-> frames[k].payload]

\* a read of the broker, and one of the agent, that decodes only such payloads
BrokerMalformedRead ==
    /\ Len(delivered') >= 1
    /\ \A k \in 1..Len(delivered') : NotEnvelope(delivered'[k].payload)

AgentMalformedRead ==
    /\ Len(agDelivered') >= 1
    /\ \A k \in 1..Len(agDelivered') : NotEnvelope(agDelivered'[k])

\* nothing but the log and the decoder changed at the agent
AgentDiscarded ==
    /\ agCalls' = agCalls
    /\ agTimers' = agTimers
    /\ agWrote' = <<>>
    /\ Len(agSocks') = Len(agSocks)
    /\ \A i \in DOMAIN agSocks :
          agSocks'[i].state = agSocks[i].state /\ agSocks'[i].out = agSocks[i].out

\* the frames of a read that are envelopes are handled as if the others had
\* not been there
BrokerSkipsOthers ==
    delivered' # <<>> =>
        LET st == Deliver([clients |-> clients, ids |-> sockId, pending |-> pendingRequests,
                           res |-> resWrites, logs |-> <<>>],
                          SelectSeq(delivered', IsResponse))
        IN  pendingRequests' = st.pending /\ resWrites' = st.res /\ clients' = clients

AgentSkipsOthers ==
    agDelivered' # <<>> =>
        LET reqs == SelectSeq(agDelivered', ParsesAsRequest)
        IN  agCalls' = agCalls \o [k \in 1..Len(reqs) |-> NewCall(ParseRequest(reqs[k]), TRUE)]

C15_FramesContiguous ==
    [][/\ \A s \in Sockets :
             /\ ConsumeLoop(sockOut'[s], sockOut'[s], <<>>).buffer = <<>>
             /\ LET frames == ConsumeLoop(sockOut'[s], sockOut'[s], <<>>).frames
                IN  /\ \A k \in 1..Len(frames) :
                          \E h \in Requests :
                             /\ phase'[h] = "ended" /\ reqClient'[h] = s
                             /\ frames[k].payload =
                                    StringifyRequest([clientId |-> sockId'[s],
                                                      requestId |-> reqId'[h],
                                                      method |-> MethodGet, url |-> Url(h),
                                                      headers |-> SomeHeaders,
                                                      body |-> Concat(reqBody'[h])])
                    /\ \A k, l \in 1..Len(frames) : k # l => frames[k] # frames[l]
       /\ \A i \in DOMAIN agSocks' :
             LET c == MbLoop(agSocks'[i].out)
             IN  /\ c.buffer = <<>>
                 /\ \A k \in 1..Len(c.frames) :
                       /\ Len(c.frames[k].payload) >= 7
                       /\ JsonType(c.frames[k].payload) = TypeResponse
       /\ (agWrote' # <<>> /\ AgLive(agSocks[Len(agSocks)])) =>
             agSocks'[Len(agSocks)].out =
                 agSocks[Len(agSocks)].out \o Produce(agWrote'[1].payload)]_vars

\* two requests were in progress at once and the frame of the later one was
\* written first: the socket holds the two frames one after the other
C15_Witness ==
    \E s \in Sockets :
        /\ Len(FramesWrittenTo(s)) = 2
        /\ phase[1] = "ended" /\ phase[2] = "ended"
        /\ FramesWrittenTo(s)[1].payload = StringifyRequest(RequestData(2))
        /\ FramesWrittenTo(s)[2].payload = StringifyRequest(RequestData(1))

\* C18: every response envelope of every agent program, on the success path
\* and on the synthetic-500 path, carries the requestId of the request
\* envelope it answers.
C18_ResponseCarriesRequestId ==
    \A k \in 1..Len(envResponse) :
        JsonIds(envResponse[k]).requestId = envRequest[1].requestId

\* the state of this.socket, "none" before the first connect()
ThisSocketState == IF agSocks = <<>> THEN "none" ELSE agSocks[Len(agSocks)].state

LiveSockets == {i \in DOMAIN agSocks : AgLive(agSocks[i])}

\* C19: the tunnel loop of the agent never stops.  Once started there is at
\* any time exactly one of: a live tunnel socket, or one armed reconnect timer
\* (never two timers, never two live sockets); after every close, of an
\* established connection or of a failed dial, a new dial is started; and if
\* the broker stays reachable the agent is connected again and again.
C19_ReconnectLoop ==
    /\ [](agDials > 0 => agTimers + Cardinality(LiveSockets) = 1)
    /\ [](ThisSocketState = "closed" => <>(ThisSocketState = "dialing"))
    /\ (<>[]brokerUp => []<>(ThisSocketState = "connected"))

\* the agent is connected for the third time (or a later one), no timer armed
C19_Witness ==
    /\ agDials = MaxDials
    /\ ThisSocketState = "connected"
    /\ agTimers = 0
    /\ Len(agSocks) = 1

\* C20: the envelope of a request received on a connection that is no longer
\* this.socket is dropped: it is written to no later connection.
C20_WrittenOnlyToOwnConnection ==
    \A k \in 1..Len(agWrote) : agWrote[k].stale => agWrote[k].to = "closed"

\* the URL handleRequest gave applyRewriteRules
RwArgument ==
    IF IsAbsolute(rwUrl) THEN rwUrl ELSE NewURL(rwUrl, rwConfig.defaultTarget)

\* the rules whose pattern matches that URL
RwMatching ==
    { k \in 1..Len(rwConfig.rewriteRules) : RegexTest(rwConfig.rewriteRules[k], RwArgument) }

\* C21: applyRewriteRules applies at most one rule: the first rule in
\* configured order whose pattern matches the URL replaces it and no later
\* rule is tested or applied; when no rule matches, every rule has been tested
\* and the URL is returned unchanged.
C21_FirstMatchingRuleOnly ==
    rwUrl # <<>> =>
        IF RwMatching = {}
        THEN rwTarget = RwArgument /\ rwTested = Len(rwConfig.rewriteRules)
        ELSE LET k == CHOOSE i \in RwMatching : \A j \in RwMatching : i <= j
             IN  /\ rwTarget = StringReplace(rwConfig.rewriteRules[k], RwArgument)
                 /\ rwTested = k

\* the first of two rules matched and was applied, and the second, which
\* matches the result and would change it, was not tested
C21_Witness ==
    /\ rwUrl # <<>>
    /\ Len(rwConfig.rewriteRules) = 2
    /\ rwTested = 1
    /\ rwTarget # RwArgument
    /\ RegexTest(rwConfig.rewriteRules[2], rwTarget)
    /\ StringReplace(rwConfig.rewriteRules[2], rwTarget) # rwTarget

\* C22: rules written against the request path take effect on relative
\* request URLs: with the shipped configuration /api/users is issued to
\* http://example.com/v1/users, and with the rule ^/hello -> /world and the
\* default target http://origin:9090, /hello is issued to
\* http://origin:9090/world.
C22_PathRulesRewriteRelativeUrls ==
    /\ (rwConfig = ShippedConfig /\ rwUrl = << "/", "api", "/", "users" >>) =>
           rwTarget = ExampleCom \o << "/", "v1", "/", "users" >>
    /\ (/\ rwConfig = [defaultTarget |-> Origin9090, rewriteRules |-> << HelloRule >>]
        /\ rwUrl = << "/", "hello" >>) =>
           rwTarget = Origin9090 \o << "/", "world" >>

\* C23: the body B of a request reaches the origin: the broker puts B in the
\* request envelope as a base64 string, and the bytes the agent writes to the
\* upstream request are B.
C23_RequestBodyRoundTrip ==
    rtStage = "issued" =>
        /\ rtEnvelope[7] # BufferTag
        /\ Drop(rtEnvelope, 6) = ToBase64(Concat(rtChunks))
        /\ rtUpstream = Concat(rtChunks)

\* the envelope of the agent for the origin's reply, status 200 and a body
\* that names the URL, to the request envelope of exchange h
UpstreamReply(h) ==
    StringifyResponse([clientId |-> sockId[reqClient[h]], requestId |-> reqId[h],
                       statusCode |-> 200, headers |-> SomeHeaders,
                       body |-> ToBase64(<< Url(h) >>)])

\* C24: when the agent has read the origin's reply with status S and body B
\* to the request of an HTTP caller and the broker reads the agent's envelope
\* for it, that caller receives status S and the body B.
C24_ResponseBodyRoundTrip ==
    [][\A h \in Requests :
         (/\ honest
          /\ phase[h] = "ended" /\ resWrites[h] = <<>> /\ ~WriteFailed(h)
          /\ ReadFrom(reqClient[h])
          /\ delivered' = << [payload |-> UpstreamReply(h), from |-> {reqClient[h]}] >>)
         => resWrites'[h] = << [status |-> 200, headers |-> SomeHeaders,
                                body |-> Bytes(<< Url(h) >>)] >>]_vars

\* C28: given the same chunks, the Go MessageBuffer has handed its callback
\* the payloads the JS MessageBuffer has handed its own, in the same order,
\* and retains the same bytes; and Produce returns the bytes produce returns.
C28_GoCodecEquivalent ==
    /\ gmSink = mbSink
    /\ gmBuffer = mbBuffer
    /\ gmProduced = Encode(mbSent)

\* both have delivered two frames, the empty one among them, after a read
\* that ended inside a length prefix, and both hold the start of a frame
\* that will never be complete
C28_Witness ==
    /\ Len(gmSink) = 2
    /\ \E k \in 1..2 : gmSink[k] = <<>>
    /\ mbSplit
    /\ mbRaw
    /\ gmBuffer = RawBytes
    /\ gmProduced # <<>>

\* the ResponseWriter of request h was called by this path
WrittenBy(h, path) == \E i \in 1..Len(gbRes[h]) : gbRes[h][i].by = path

\* C25: in the Go broker the ResponseWriter of a request is written by at
\* most one of the timeout path and the response path: once the timeout path
\* has answered 504 the pending entry is gone (a late envelope finds nothing
\* and is discarded), and once the response path has written, the timeout
\* path writes nothing.
C25_OnePathWrites ==
    \A h \in GoRequests :
        /\ ~(WrittenBy(h, "timeout") /\ WrittenBy(h, "response"))
        /\ WrittenBy(h, "timeout") => h \notin gbPending

\* C27: in the Go broker every mutation of s.clients and of s.pendingRequests
\* is made while its mutex is held for writing, so it never coincides with
\* another goroutine's section of that mutex.
C27_MutationsHoldWriteLock ==
    [][/\ gbPending' # gbPending => gbRequestsMutex.w # NoOne
       /\ gbClients' # gbClients => gbClientsMutex.w # NoOne]_vars

\* the request envelope with this requestId has reached the agent's socket
GaArrived(r) == r <= gaSent

\* C26: the Go agent handles request envelopes concurrently: every request
\* envelope that has arrived is decoded and its upstream call started, also
\* while the upstream call of an earlier request is still in flight (the
\* origin may take for ever over it).
C26_RequestsHandledConcurrently ==
    \A r \in 1..MaxGoAgentReq : GaArrived(r) ~> (r \in gaStarted)

\* req 'end' of exchange h runs in this step: client.write is called
WritesRequestFrame(h) == phase[h] = "reading" /\ phase'[h] = "ended"

\* C29: the JS broker writes a request frame only to an agent that is
\* registered at the moment of the write, whatever connects and disconnects
\* of agents happen between the arrival of the HTTP request and the end of
\* its body.
C29_FrameWrittenToRegisteredAgent ==
    [][\A h \in Requests :
         WritesRequestFrame(h) => reqClient[h] \in Range(clients)]_vars

\* the response envelopes written for this requestId
HrResponses(r) == { i \in 1..Len(hrWritten) : hrWritten[i].requestId = r }

\* C30: for every request envelope the JS agent decodes while its tunnel
\* stays connected, the agent eventually writes exactly one response envelope
\* with that requestId, the upstream's response or a synthetic 500, whether
\* the error is raised by the upstream call or synchronously while the URL is
\* resolved, the rules are applied or the upstream request is built.
C30_EveryRequestAnswered ==
    \A r \in 1..MaxAgentReq :
        (r <= Len(hrDecoded)) ~> (hrSocket = "closed" \/ Cardinality(HrResponses(r)) = 1)

\* req 'aborted' of exchange h runs in this step
Aborts(h) == phase[h] \in {"reading", "ended"} /\ phase'[h] = "aborted"

\* the entries of pendingRequests that belong to other exchanges than h
EntriesOfOthers(pend, h) == { k \in DOMAIN pend : pend[k].res # h }

\* C31: when an HTTP caller aborts its request, the pending entry of that
\* request and only that entry is removed and the agent registry is unchanged;
\* from then on nothing is written to the aborted responder, whatever
\* response envelope arrives.
C31_AbortRemovesOwnEntryOnly ==
    [][\A h \in Requests :
         /\ Aborts(h) =>
               /\ EntriesOfOthers(pendingRequests', h) = EntriesOfOthers(pendingRequests, h)
               /\ \A k \in EntriesOfOthers(pendingRequests, h) :
                     pendingRequests'[k] = pendingRequests[k]
               /\ DOMAIN pendingRequests' = EntriesOfOthers(pendingRequests', h)
               /\ clients' = clients
         /\ phase[h] = "aborted" => resWrites'[h] = resWrites[h]]_vars

\* the type field of a decoded payload; Absent when it is not JSON
TypeOf(p) == IF IsJson(p) THEN JsonType(p) ELSE Absent

\* a read of the broker that decodes no envelope of type 'response', and a
\* read of the agent that decodes no envelope of type 'request'
BrokerReadsNoResponse ==
    /\ Len(delivered') >= 1
    /\ \A k \in 1..Len(delivered') : TypeOf(delivered'[k].payload) # TypeResponse

AgentReadsNoRequest ==
    /\ Len(agDelivered') >= 1
    /\ \A k \in 1..Len(agDelivered') : TypeOf(agDelivered'[k]) # TypeRequest

\* C32: envelopes are dispatched on their type at both ends of the tunnel:
\* the agent starts an upstream call only for envelopes of type 'request',
\* the broker completes a pending request only for envelopes of type
\* 'response'; envelopes of any other type change no state and write to no
\* responder.
C32_DispatchedOnType ==
    [][/\ BrokerReadsNoResponse =>
            (pendingRequests' = pendingRequests /\ resWrites' = resWrites /\ clients' = clients)
       /\ AgentReadsNoRequest => (agCalls' = agCalls /\ agWrote' = <<>>)]_vars

\* handleRequest runs for exchange h in this step
Arrives(h) == phase[h] = "idle" /\ phase'[h] # "idle"

\* the sockets are accepted in the order of their numbers: the registered
\* socket that was registered first is the one with the smallest number
EarliestRegistered == CHOOSE s \in Range(clients) : \A t \in Range(clients) : s <= t

\* C33: whenever at least one agent is registered, an incoming HTTP request
\* is assigned to the agent that was registered first among those still
\* registered; an agent registered later gets requests only once every agent
\* registered before it has been unregistered.
C33_EarliestRegisteredSelected ==
    [][\A h \in Requests :
         (Arrives(h) /\ clients # <<>>) =>
            /\ phase'[h] = "reading"
            /\ reqClient'[h] = EarliestRegistered
            /\ \A t \in Sockets :
                  (t < reqClient'[h] /\ Accepted(t)) => t \notin Range(clients)]_vars

\* the second agent was given a request after the first one had gone
C33_Witness ==
    \E h \in Requests :
        /\ phase[h] = "reading"
        /\ reqClient[h] = 2
        /\ sockState[1] \in {"ended", "error"}
        /\ sockState[2] = "open"

\* the sockets that have been accepted and have emitted neither 'end' nor 'error'
OpenSockets == { s \in Sockets : sockState[s] = "open" }

\* C34: in every reachable state the clients set holds exactly the agent
\* sockets that have been accepted and have not yet emitted 'end' or 'error';
\* a socket that has emitted either is never selected for a later HTTP
\* request, and its second removal ('error' after 'end') changes nothing in
\* the set.
C34_RegistryIsLiveSockets ==
    /\ [](Range(clients) = OpenSockets /\ Len(clients) = Cardinality(OpenSockets))
    /\ [][/\ \A h \in Requests :
               (Arrives(h) /\ phase'[h] = "reading") => reqClient'[h] \in OpenSockets
          /\ \A s \in Sockets :
               (sockState[s] = "ended" /\ sockState'[s] = "error") => clients' = clients]_vars

\* the first socket has failed, the second is registered and was given the
\* request that came after
C34_Witness ==
    /\ sockState[1] = "error"
    /\ clients = << 2 >>
    /\ \E h \in Requests : phase[h] = "reading" /\ reqClient[h] = 2

\* C35: a pending request is completed only by a response envelope received
\* on the tunnel socket of the agent the request was dispatched to: a read
\* from another agent's socket neither removes its entry nor writes to its
\* responder, whatever requestId its envelopes carry.
C35_CompletedOnlyByOwnAgent ==
    [][\A h \in Requests : \A s \in Sockets :
         (HasEntry(h) /\ ReadFrom(s) /\ reqClient[h] # s) =>
            /\ resWrites'[h] = resWrites[h]
            /\ reqId[h] \in DOMAIN pendingRequests']_vars

\* the dial of socket i ends in a connection in this step
Connects(i) ==
    /\ i \in DOMAIN agSocks /\ i \in DOMAIN agSocks'
    /\ agSocks[i].state = "dialing"
    /\ agSocks'[i].state = "connected"

\* C36: every new tunnel connection of the agent starts decoding from an
\* empty frame buffer: what was left of a partial frame when the previous
\* connection closed is not there to be put in front of the bytes of the
\* next one.
C36_ConnectionStartsWithEmptyBuffer ==
    [][\A i \in 1..MaxDials : Connects(i) => agBuffer' = <<>>]_vars

\* every byte the peer has written, and those of them consume was given
MbWritten == Encode(mbSent) \o (IF mbRaw THEN RawBytes ELSE <<>>)

MbFed == Take(MbWritten, Len(MbWritten) - Len(mbFeed))

\* C37: after every consume call the retained buffer is shorter than 4 bytes
\* or shorter than 4 + L, L being its own length prefix: no complete frame is
\* left undelivered, and the retained bytes are exactly what follows the
\* delivered frames in everything fed so far.
C37_NoCompleteFrameRetained ==
    /\ Len(mbBuffer) < 4 \/ Len(mbBuffer) < 4 + ReadUInt32BE(mbBuffer)
    /\ Encode(mbSink) \o mbBuffer = MbFed

\* a consume call delivered a frame and kept the prefix and part of the
\* payload of the next one
C37_Witness ==
    /\ mbCalls >= 1
    /\ Len(mbSink) >= 1
    /\ Len(mbBuffer) > 4
    /\ mbFeed # <<>>

\* consume runs in this step, and the bytes its loop starts from
MbConsumes == Len(mbFeed') < Len(mbFeed)

MbLoopInput == mbBuffer \o Take(mbFeed, Len(mbFeed) - Len(mbFeed'))

\* the payloads the callback was given in this step
MbHanded == Drop(mbSink', Len(mbSink))

\* the bytes the iterations that took these frames removed from the buffer
RECURSIVE BytesRemoved(_)
BytesRemoved(ps) == IF ps = <<>> THEN 0 ELSE 4 + Len(Head(ps)) + BytesRemoved(Tail(ps))

EmptyFrames(ps) == Len(SelectSeq(ps, LAMBDA q : q = <<>>))

\* C38: consume terminates on every input: every iteration of its loop that
\* does not leave the loop hands one frame to the sink and removes the
\* frame's 4 + L bytes, at least 4, from the buffer, also when L = 0; a
\* zero-length frame hands an empty payload to the sink exactly once.
C38_ConsumeTerminates ==
    [][MbConsumes =>
         /\ Len(MbLoopInput) - Len(mbBuffer') = BytesRemoved(MbHanded)
         /\ 4 * Len(MbHanded) <= Len(MbLoopInput)
         /\ ~mbRaw =>
               /\ EmptyFrames(mbSink') <= EmptyFrames(mbSent)
               /\ mbFeed' = <<>> => EmptyFrames(mbSink') = EmptyFrames(mbSent)]_vars

\* one consume call was given two zero-length frames and handed the sink two
\* empty payloads
C38_Witness ==
    /\ mbCalls = 1
    /\ mbSent = << <<>>, <<>> >>
    /\ mbSink = << <<>>, <<>> >>
    /\ mbBuffer = <<>>

\* the request frames written to socket s that carry the url of exchange h
FramesFor(h, s) ==
    { i \in 1..Len(FramesWrittenTo(s)) :
         /\ ParsesAsRequest(FramesWrittenTo(s)[i].payload)
         /\ ParseRequest(FramesWrittenTo(s)[i].payload).url = Url(h) }

\* C39: registration precedes dispatch.  handleRequest stores the entry of
\* the request under its requestId and writes nothing; a request frame is
\* written only at the end of the body of a request that was registered in
\* this way, it carries that requestId, and at most one frame is written per
\* HTTP request.
C39_RegistrationPrecedesDispatch ==
    /\ [](\A s \in Sockets :
            LET frames == FramesWrittenTo(s)
            IN  \A i \in 1..Len(frames) :
                   ParsesAsRequest(frames[i].payload) =>
                      LET rq == ParseRequest(frames[i].payload)
                      IN  \A h \in Requests :
                             Url(h) = rq.url =>
                                /\ s = reqClient[h]
                                /\ phase[h] \in {"ended", "aborted"}
                                /\ rq.requestId = reqId[h]
                                /\ \A j \in 1..Len(frames) :
                                      (j # i /\ ParsesAsRequest(frames[j].payload)) =>
                                         ParseRequest(frames[j].payload).url # rq.url)
    /\ [][/\ \A h \in Requests :
               (Arrives(h) /\ phase'[h] = "reading") =>
                  /\ reqId'[h] \in DOMAIN pendingRequests'
                  /\ pendingRequests'[reqId'[h]] = PendingEntry(h)
                  /\ sockOut' = sockOut
          /\ sockOut' # sockOut => \E h \in Requests : WritesRequestFrame(h)]_vars

\* the frame of a request has been written and its entry is waiting for the
\* response
C39_Witness ==
    \E h \in Requests :
        /\ phase[h] = "ended"
        /\ HasEntry(h)
        /\ FramesFor(h, reqClient[h]) # {}
====
